---- MODULE Spec2Model ----
(***************************************************************************)
(* Model of the editing core of oxide: the text buffer (content, cursor,   *)
(* viewport, mode, Visual anchor, command line) with its manipulation and  *)
(* navigation operations, the keybinding manager (chord resolver), the     *)
(* command parser and the minibuffer.                                      *)
(*                                                                         *)
(* Strings are Rust Strings: sequences of UTF-8 bytes indexed by byte      *)
(* offset.  String::insert, String::remove, split_off and slicing panic    *)
(* when the offset is out of range or not on a character boundary; Vec     *)
(* indexing, insert and remove panic when the index is out of range.  A    *)
(* panic aborts the process: the model records it in `panicked` and stops. *)
(* Arithmetic on usize that goes below zero panics in a build with         *)
(* overflow checks and wraps in a build without them; both outcomes are    *)
(* modelled.                                                               *)
(***************************************************************************)
EXTENDS Integers, Sequences, FiniteSets, TLC

VARIABLES buffer, panicked, keybinding_manager, last, executed, minibuffer, titles,
          active_buffer, modes, is_running, source, disk

bvars == <<buffer, panicked>>

kvars == <<keybinding_manager, last>>

cvars == <<executed, is_running, source, disk>>

mvars == <<minibuffer, titles, active_buffer, modes>>

vars == <<buffer, panicked, keybinding_manager, last, executed, minibuffer, titles,
          active_buffer, modes, is_running, source, disk>>

(***************************************************************************)
(* Bounds of the model                                                     *)
(***************************************************************************)
MaxLines == 3
MaxBytes == 3
MaxInput == 1
MaxAdded == 1
MaxDy == 2
MaxCommand == 3
MaxMbInput == 2
MaxPath == 5
MaxBuffers == 4

(***************************************************************************)
(* Program constants                                                       *)
(***************************************************************************)
TabWidth == 4

\* usize is modelled modulo 2^30 (the widest power of two whose sums stay in
\* the model checker's integers); UsizeMax is the value 0 - 1 wraps to.
UsizeMod == 1073741824
UsizeMax == UsizeMod - 1

\* `x as i32` of a usize: two's complement truncation.
as_i32(v) == IF v >= UsizeMod \div 2 THEN v - UsizeMod ELSE v

clamp(v, lo, hi) == IF v < lo THEN lo ELSE IF v > hi THEN hi ELSE v

min(a, b) == IF a < b THEN a ELSE b

saturating_sub(a, b) == IF a >= b THEN a - b ELSE 0

(***************************************************************************)
(* Characters and strings                                                  *)
(***************************************************************************)
\* The characters a key event can carry in the model: the space (one byte)
\* and U+00E9 (two bytes, C3 A9).
Chars == {" ", "e-acute"}

Utf8(c) == IF c = "e-acute" THEN <<"C3", "A9">> ELSE <<c>>

\* str::is_char_boundary
is_char_boundary(s, i) ==
  \/ i = 0
  \/ i = Len(s)
  \/ (i < Len(s) /\ s[i + 1] # "A9")

\* width in bytes of the character starting at byte offset i
char_width_at(s, i) == IF s[i + 1] = "C3" THEN 2 ELSE 1

\* String::insert(idx, ch); the caller has checked is_char_boundary(s, i)
str_insert(s, i, c) == SubSeq(s, 1, i) \o Utf8(c) \o SubSeq(s, i + 1, Len(s))

\* String::remove(idx) panics at the end of the string and inside a character
can_remove(s, i) == i < Len(s) /\ is_char_boundary(s, i)

str_remove(s, i) ==
  SubSeq(s, 1, i) \o SubSeq(s, i + 1 + char_width_at(s, i), Len(s))

\* &s[..i] and &s[i..]
slice_to(s, i) == SubSeq(s, 1, i)

slice_from(s, i) == SubSeq(s, i + 1, Len(s))

\* Vec::insert(index, element) and Vec::remove(index)
vec_insert(v, i, e) == SubSeq(v, 1, i) \o <<e>> \o SubSeq(v, i + 1, Len(v))

vec_remove(v, i) == SubSeq(v, 1, i) \o SubSeq(v, i + 2, Len(v))

vec_set(v, i, e) == [v EXCEPT ![i + 1] = e]

(***************************************************************************)
(* Data                                                                    *)
(***************************************************************************)
Modes == {"Normal", "Insert", "Visual", "Command", "Minibuffer"}

None == <<>>

Some(v) == <<v>>

is_some(o) == o # <<>>

unwrap(o) == o[1]

\* Cursor::default()
CursorDefault == [x |-> 0, y |-> 0, desired_x |-> 0]

\* CommandLineManager::default()
CommandLineDefault ==
  [state |-> "Default", content |-> <<>>, prefix |-> <<>>, input |-> <<>>,
   suffix |-> <<>>, cursor |-> CursorDefault]

\* Viewport::new(height)
ViewportNew(height) == [top |-> 0, height |-> height]

\* Buffer::new(title, content, source, height, state)
BufferNew(content, height, mutable) ==
  [content |-> content,
   cursor |-> CursorDefault,
   viewport |-> ViewportNew(height),
   mode |-> "Normal",
   mutable |-> mutable,
   command_line |-> CommandLineDefault,
   visual_start |-> None,
   visual_end |-> None]

\* MinibufferKind
MinibufferKindNop == [tag |-> "Nop"]

MinibufferKindFile == [tag |-> "File"]

MinibufferKindBuffer(buffer_list) == [tag |-> "Buffer", buffer_list |-> buffer_list]

\* Minibuffer::default()
MinibufferDefault ==
  [cursor |-> CursorDefault, input |-> <<>>, matched_input |-> <<>>, prefix |-> <<>>,
   content |-> <<>>, kind |-> MinibufferKindNop]

\* The outcome of an operation: the buffer it leaves and Ok, an error, or Panic.
Out(b, r) == [b |-> b, r |-> r]

Ok(b) == Out(b, "Ok")

Panic(b) == Out(b, "Panic")

(***************************************************************************)
(* Viewport                                                                *)
(***************************************************************************)
\* Viewport::bottom
bottom(vp) == vp.top + vp.height

\* adjust that does not pull the viewport back when it reaches below the content
adjust_without_pull_back(vp, cursor_y, content_len) ==
  IF cursor_y < vp.top
    THEN [vp EXCEPT !.top = cursor_y]
    ELSE IF cursor_y >= bottom(vp)
      THEN [vp EXCEPT !.top = saturating_sub(cursor_y, vp.height) + 1]
      ELSE vp

\* Viewport::adjust
adjust(vp, cursor_y, content_len) ==
  LET vp1 == IF cursor_y < vp.top
               THEN [vp EXCEPT !.top = cursor_y]
               ELSE IF cursor_y >= bottom(vp)
                 THEN [vp EXCEPT !.top = saturating_sub(cursor_y, vp.height) + 1]
                 ELSE vp
  IN  IF bottom(vp1) > content_len
        THEN [vp1 EXCEPT !.top = saturating_sub(content_len, vp1.height)]
        ELSE vp1

(***************************************************************************)
(* Mode switching                                                          *)
(***************************************************************************)
\* The copy of the cursor kept as the Visual anchor; of the copy only x and y
\* are ever read, and the model keeps only them.
anchor(cursor) == [x |-> cursor.x, y |-> cursor.y]

\* leave_mode that forgets the Visual anchor
leave_mode_keeps_anchor(b) ==
  IF b.mode = "Command"
    THEN [b EXCEPT !.command_line.prefix = <<>>,
                   !.command_line.input = <<>>,
                   !.command_line.suffix = <<>>,
                   !.command_line.content = <<>>,
                   !.command_line.cursor = CursorDefault]
    ELSE b

\* The first match of Buffer::switch_mode: what leaving the current mode resets.
leave_mode(b) ==
  IF b.mode = "Visual"
    THEN [b EXCEPT !.visual_start = None, !.visual_end = None]
    ELSE IF b.mode = "Command"
      THEN [b EXCEPT !.command_line.prefix = <<>>,
                     !.command_line.input = <<>>,
                     !.command_line.suffix = <<>>,
                     !.command_line.content = <<>>,
                     !.command_line.cursor = CursorDefault]
      ELSE b

\* Buffer::switch_mode; params is a ModeParams value
switch_mode(b, params) ==
  LET b1 == leave_mode(b) IN
  CASE params.mode = "Visual" ->
         Ok([b1 EXCEPT !.visual_start = Some(anchor(b1.cursor)),
                       !.visual_end = Some(anchor(b1.cursor)),
                       !.mode = "Visual"])
    [] params.mode = "Command" ->
         Ok([b1 EXCEPT !.command_line.prefix = params.prefix,
                       !.command_line.input = params.input,
                       !.command_line.state = params.state,
                       !.command_line.cursor.x = Len(params.prefix) + Len(params.input),
                       !.command_line.cursor.y = 0,
                       !.mode = "Command"])
    [] params.mode = "Insert" ->
         IF params.insert_direction = "After"
           THEN IF b1.cursor.y >= Len(b1.content)
                  THEN Panic(b)
                  ELSE IF Len(b1.content[b1.cursor.y + 1]) > b1.cursor.x
                    THEN Ok([b1 EXCEPT !.cursor.x = b1.cursor.x + 1, !.mode = "Insert"])
                    ELSE Ok([b1 EXCEPT !.mode = "Insert"])
           ELSE Ok([b1 EXCEPT !.mode = "Insert"])
    [] params.mode = "Normal" -> Ok([b1 EXCEPT !.mode = "Normal"])

\* ModeParams::Minibuffer, the arm of switch_mode that enters Minibuffer mode
switch_mode_minibuffer(b) == Ok([leave_mode(b) EXCEPT !.mode = "Minibuffer"])

ModeParamsNormal == [mode |-> "Normal"]

ModeParamsVisual == [mode |-> "Visual"]

ModeParamsInsert(d) == [mode |-> "Insert", insert_direction |-> d]

ModeParamsCommand(prefix, input, state) ==
  [mode |-> "Command", prefix |-> prefix, input |-> input, state |-> state]

(***************************************************************************)
(* Command line: Manipulation and Navigation for CommandLine               *)
(***************************************************************************)
\* CommandLine::add_char; c is the command line, the outcome carries it in b
cl_add_char(cl, character) ==
  LET prefix_len == Len(cl.prefix) IN
  IF cl.cursor.x < prefix_len \/ ~is_char_boundary(cl.input, cl.cursor.x - prefix_len)
    THEN Panic(cl)
    ELSE Ok([cl EXCEPT !.input = str_insert(cl.input, cl.cursor.x - prefix_len, character),
                       !.cursor.x = cl.cursor.x + 1])

\* CommandLine::remove_char
cl_remove_char(cl) ==
  LET prefix_len == Len(cl.prefix) IN
  IF cl.input # <<>>
    THEN IF cl.cursor.x < prefix_len + 1 \/ ~can_remove(cl.input, cl.cursor.x - prefix_len - 1)
           THEN Panic(cl)
           ELSE Ok([cl EXCEPT !.input = str_remove(cl.input, cl.cursor.x - prefix_len - 1),
                              !.cursor.x = cl.cursor.x - 1])
    ELSE Ok(cl)

\* CommandLine::move_cursor
cl_move_cursor(cl, x, y) ==
  LET prefix_len == Len(cl.prefix)
      input_len == Len(cl.input)
      new_x == clamp(as_i32(cl.cursor.x) + x, prefix_len, prefix_len + input_len)
  IN  [cl EXCEPT !.cursor.x = new_x, !.cursor.desired_x = new_x]

(***************************************************************************)
(* Manipulation for Buffer                                                 *)
(***************************************************************************)
\* Buffer::add_char
add_char(b, character) ==
  CASE b.mode = "Insert" ->
         IF b.cursor.y >= Len(b.content)
           THEN Panic(b)
           ELSE LET line == b.content[b.cursor.y + 1] IN
                IF ~is_char_boundary(line, b.cursor.x)
                  THEN Panic(b)
                  ELSE Ok([b EXCEPT
                         !.content = vec_set(b.content, b.cursor.y,
                                             str_insert(line, b.cursor.x, character)),
                         !.cursor.x = b.cursor.x + 1])
    [] b.mode = "Command" ->
         LET o == cl_add_char(b.command_line, character) IN
         IF o.r = "Panic" THEN Panic(b) ELSE Ok([b EXCEPT !.command_line = o.b])
    [] OTHER -> Out(b, "WrongModeError")

\* the loop `for _ in 0..spaces { self.add_char(' ')?; }` of add_tab
RECURSIVE add_chars(_, _, _)
add_chars(b, character, n) ==
  IF n = 0
    THEN Ok(b)
    ELSE LET o == add_char(b, character) IN
         IF o.r = "Ok"
           THEN LET rest == add_chars(o.b, character, n - 1) IN
                IF rest.r = "Ok" THEN rest ELSE Out(b, rest.r)
           ELSE Out(b, o.r)

\* the loop `while (self.cursor.x + spaces) % 4 != 0 { spaces -= 1; }`
RECURSIVE tab_spaces(_, _)
tab_spaces(x, spaces) ==
  IF ((x + spaces) % UsizeMod) % TabWidth # 0 THEN tab_spaces(x, spaces - 1) ELSE spaces

\* Buffer::add_tab
add_tab(b) == add_chars(b, " ", tab_spaces(b.cursor.x, TabWidth))

\* Buffer::new_line; direction is "Under" or "Over"
new_line(b, direction) ==
  LET after(b1) ==
        [b1 EXCEPT !.viewport = adjust(b1.viewport, b1.cursor.y, Len(b1.content))]
  IN
  CASE b.mode = "Insert" ->
         IF b.cursor.y >= Len(b.content)
           THEN Panic(b)
           ELSE LET line == b.content[b.cursor.y + 1] IN
                IF ~is_char_boundary(line, b.cursor.x)
                  THEN Panic(b)
                  ELSE Ok(after([b EXCEPT
                         !.content = vec_insert(
                                       vec_set(b.content, b.cursor.y, slice_to(line, b.cursor.x)),
                                       b.cursor.y + 1, slice_from(line, b.cursor.x)),
                         !.cursor.y = b.cursor.y + 1,
                         !.cursor.x = 0]))
    [] b.mode = "Normal" ->
         IF b.mutable
           THEN IF direction = "Under"
                  THEN IF b.cursor.y + 1 > Len(b.content)
                         THEN Panic(b)
                         ELSE Ok(after([b EXCEPT
                                !.content = vec_insert(b.content, b.cursor.y + 1, <<>>),
                                !.cursor.y = b.cursor.y + 1,
                                !.cursor.x = 0,
                                !.mode = "Insert"]))
                  ELSE IF b.cursor.y > Len(b.content)
                         THEN Panic(b)
                         ELSE Ok(after([b EXCEPT
                                !.content = vec_insert(b.content, b.cursor.y, <<>>),
                                !.cursor.x = 0,
                                !.mode = "Insert"]))
           ELSE Ok(after(b))
    [] OTHER -> Ok(after(b))

\* the loop `for _ in (top.y + 1..bottom.y).rev() { self.content.remove(top.y + 1); }`
RECURSIVE remove_between(_, _, _)
remove_between(content, at, n) ==
  IF n <= 0 THEN content ELSE remove_between(vec_remove(content, at), at, n - 1)

\* Buffer::remove_char, Mode::Insert
remove_char_insert(b) ==
  IF b.cursor.x > 0
    THEN IF b.cursor.y >= Len(b.content)
           THEN Panic(b)
           ELSE LET line == b.content[b.cursor.y + 1] IN
                IF ~can_remove(line, b.cursor.x - 1)
                  THEN Panic(b)
                  ELSE Ok([b EXCEPT
                         !.content = vec_set(b.content, b.cursor.y,
                                             str_remove(line, b.cursor.x - 1)),
                         !.cursor.x = b.cursor.x - 1])
    ELSE IF b.cursor.y > 0
      THEN IF b.cursor.y >= Len(b.content)
             THEN Panic(b)
             ELSE LET current_line == b.content[b.cursor.y + 1]
                      content1 == vec_remove(b.content, b.cursor.y)
                      y1 == b.cursor.y - 1
                  IN  Ok([b EXCEPT
                        !.content = vec_set(content1, y1, content1[y1 + 1] \o current_line),
                        !.cursor.y = y1,
                        !.cursor.x = Len(content1[y1 + 1])])
      ELSE Ok(b)

\* Buffer::remove_char, Mode::Normal; overflow_checks tells whether the build
\* panics on `self.cursor.x -= 1` at 0 or wraps
remove_char_normal(b, overflow_checks) ==
  IF b.mutable
    THEN IF b.cursor.y >= Len(b.content)
           THEN Panic(b)
           ELSE LET line == b.content[b.cursor.y + 1] IN
                IF b.cursor.x < Len(line)
                  THEN IF ~is_char_boundary(line, b.cursor.x)
                         THEN Panic(b)
                         ELSE LET line1 == str_remove(line, b.cursor.x)
                                  b1 == [b EXCEPT !.content = vec_set(b.content, b.cursor.y, line1)]
                              IN  IF line1 # <<>> /\ b.cursor.x >= Len(line1) - 1
                                    THEN IF b.cursor.x = 0
                                           THEN IF overflow_checks
                                                  THEN Panic(b)
                                                  ELSE Ok([b1 EXCEPT !.cursor.x = UsizeMax])
                                           ELSE Ok([b1 EXCEPT !.cursor.x = b.cursor.x - 1])
                                    ELSE Ok(b1)
                  ELSE IF b.cursor.x = Len(line) /\ line # <<>>
                         THEN Ok([b EXCEPT !.cursor.x = b.cursor.x - 1])
                         ELSE Ok(b)
    ELSE Ok(b)

\* lexicographic (y, x) order of the anchor and the cursor
visual_top(start, cursor) ==
  IF start.y < cursor.y \/ (start.y = cursor.y /\ start.x <= cursor.x) THEN start ELSE cursor

visual_bottom(start, cursor) ==
  IF start.y < cursor.y \/ (start.y = cursor.y /\ start.x <= cursor.x) THEN cursor ELSE start

\* the cursor update and switch_mode(ModeParams::Normal) that end the Visual delete
visual_finish(b, content, top) ==
  switch_mode([b EXCEPT !.content = content, !.cursor.x = top.x, !.cursor.y = top.y],
              [mode |-> "Normal"])

\* Buffer::remove_char, Mode::Visual, single-line selection
visual_single_line(b, top, bot) ==
  LET line == b.content[top.y + 1] IN
  IF bot.x < Len(line)
    THEN IF ~is_char_boundary(line, top.x) \/ ~is_char_boundary(line, bot.x)
           THEN Panic(b)
           ELSE visual_finish(b, vec_set(b.content, top.y,
                                         slice_to(line, top.x) \o slice_from(line, bot.x)), top)
    ELSE IF ~is_char_boundary(line, top.x)
           THEN Panic(b)
           ELSE visual_finish(b, vec_set(b.content, top.y, slice_to(line, top.x)), top)

\* Buffer::remove_char, Mode::Visual, multi-line selection
visual_multi_line(b, top, bot) ==
  LET bottom_line == b.content[bot.y + 1]
      whole_bottom == bot.x = 0 \/ bot.x >= Len(bottom_line)
      content1 == IF whole_bottom
                    THEN vec_remove(b.content, bot.y)
                    ELSE vec_set(b.content, bot.y, slice_from(bottom_line, bot.x))
      content2 == remove_between(content1, top.y + 1, bot.y - (top.y + 1))
      whole_top == top.x = 0 /\ top.y < Len(content2) /\ Len(content2) > 1
      top_line == content2[top.y + 1]
  IN  IF ~whole_bottom /\ ~is_char_boundary(bottom_line, bot.x)
        THEN Panic(b)
        ELSE IF whole_top
          THEN visual_finish(b, vec_remove(content2, top.y), top)
          ELSE IF ~is_char_boundary(top_line, top.x)
            THEN Panic(b)
            ELSE visual_finish(b, vec_set(content2, top.y, slice_to(top_line, top.x)), top)

\* Buffer::remove_char, Mode::Visual
remove_char_visual(b) ==
  IF is_some(b.visual_start) /\ b.mutable
    THEN LET start == unwrap(b.visual_start)
             top == visual_top(start, b.cursor)
             bot == visual_bottom(start, b.cursor)
         IN  IF top.y >= Len(b.content) \/ bot.y >= Len(b.content)
               THEN Ok(b)
               ELSE IF top.y = bot.y
                 THEN visual_single_line(b, top, bot)
                 ELSE visual_multi_line(b, top, bot)
    ELSE Ok(b)

\* Buffer::remove_char
remove_char(b, overflow_checks) ==
  CASE b.mode = "Insert" -> remove_char_insert(b)
    [] b.mode = "Normal" -> remove_char_normal(b, overflow_checks)
    [] b.mode = "Visual" -> remove_char_visual(b)
    [] b.mode = "Command" ->
         LET o == cl_remove_char(b.command_line) IN
         IF o.r = "Panic" THEN Panic(b) ELSE Ok([b EXCEPT !.command_line = o.b])
    [] b.mode = "Minibuffer" -> Out(b, "WrongModeError")

\* delete_line that removes the line also when it is the only one
delete_line_removes_last(b) ==
  IF b.mutable
    THEN IF b.cursor.y >= Len(b.content)
           THEN Panic(b)
           ELSE LET content1 == vec_remove(b.content, b.cursor.y) IN
                Ok([b EXCEPT !.content = content1,
                             !.cursor.y = IF b.cursor.y > 0 THEN b.cursor.y - 1 ELSE 0,
                             !.cursor.x = 0])
    ELSE Ok(b)

\* Buffer::delete_line
delete_line(b) ==
  IF b.mutable
    THEN IF b.cursor.y >= Len(b.content)
           THEN Panic(b)
           ELSE IF Len(b.content) > 1
             THEN LET content1 == vec_remove(b.content, b.cursor.y) IN
                  Ok([b EXCEPT !.content = content1,
                               !.cursor.y = IF b.cursor.y > Len(content1) - 1
                                              THEN b.cursor.y - 1 ELSE b.cursor.y,
                               !.cursor.x = 0])
             ELSE Ok([b EXCEPT !.content = vec_set(b.content, b.cursor.y, <<>>),
                               !.cursor.x = 0])
    ELSE Ok(b)

(***************************************************************************)
(* Navigation for Buffer                                                   *)
(***************************************************************************)
\* move_cursor whose vertical move takes the clamped column as the desired one
move_cursor_forgets_desired_x(b, x, y) ==
  CASE b.mode \in {"Normal", "Visual"} ->
         LET new_y == clamp(as_i32(b.cursor.y) + y, 0, Len(b.content) - 1)
             viewport1 == adjust(b.viewport, new_y, Len(b.content))
             current_line_len == Len(b.content[new_y + 1])
             new_x == IF x # 0
                        THEN clamp(as_i32(b.cursor.x) + x, 0, current_line_len)
                        ELSE min(b.cursor.desired_x, current_line_len)
         IN  [b EXCEPT !.cursor.y = new_y, !.viewport = viewport1,
                       !.cursor.x = new_x, !.cursor.desired_x = new_x]
    [] b.mode = "Command" ->
         [b EXCEPT !.command_line = cl_move_cursor(b.command_line, x, y)]
    [] OTHER -> b

\* Buffer::move_cursor
move_cursor(b, x, y) ==
  CASE b.mode \in {"Normal", "Visual"} ->
         LET new_y == clamp(as_i32(b.cursor.y) + y, 0, Len(b.content) - 1)
             viewport1 == adjust(b.viewport, new_y, Len(b.content))
             current_line_len == Len(b.content[new_y + 1])
             new_x == clamp(as_i32(b.cursor.x) + x, 0, current_line_len)
         IN  IF x # 0
               THEN [b EXCEPT !.cursor.y = new_y, !.viewport = viewport1,
                              !.cursor.x = new_x, !.cursor.desired_x = new_x]
               ELSE [b EXCEPT !.cursor.y = new_y, !.viewport = viewport1,
                              !.cursor.x = min(b.cursor.desired_x, current_line_len)]
    [] b.mode = "Command" ->
         [b EXCEPT !.command_line = cl_move_cursor(b.command_line, x, y)]
    [] OTHER -> b

\* Buffer::move_cursor_to_top
move_cursor_to_top(b) ==
  [b EXCEPT !.cursor.x = 0, !.cursor.y = 0,
            !.viewport = adjust(b.viewport, 0, Len(b.content))]

\* Buffer::move_cursor_to_bot
move_cursor_to_bot(b) ==
  [b EXCEPT !.cursor.x = 0, !.cursor.y = Len(b.content) - 1,
            !.viewport = adjust(b.viewport, Len(b.content) - 1, Len(b.content))]

(***************************************************************************)
(* Keybinding manager                                                      *)
(***************************************************************************)
\* BufferKind, the tag the keybinding manager selects a binding table by
BufferKinds == {"Normal", "Other"}

\* Keybinding { key, modifiers }; a KeyCode is <<"Char", c>> or <<name>>
Key(code, modifiers) == [key |-> code, modifiers |-> modifiers]

Char(c) == Key(<<"Char", c>>, "NONE")

Shift(c) == Key(<<"Char", c>>, "SHIFT")

Ctrl(c) == Key(<<"Char", c>>, "CONTROL")

Code(name) == Key(<<name>>, "NONE")

\* an action, named after the struct that implements Action, with its arguments
Act(name, args) == [name |-> name, args |-> args]

\* one entry of mode_bindings: mode -> Option<BufferKind> -> KeySequence -> action
Binding(mode, buffer_kind, key_sequence, action) ==
  [mode |-> mode, kind |-> buffer_kind, seq |-> key_sequence, action |-> action]

\* KeybindingManager::setup_default_bindings
DefaultBindings ==
  { Binding("Normal", None, <<Char("n")>>, Act("MoveCursor", <<"-1", "0">>)),
    Binding("Normal", None, <<Char("e")>>, Act("MoveCursor", <<"0", "1">>)),
    Binding("Normal", None, <<Char("i")>>, Act("MoveCursor", <<"0", "-1">>)),
    Binding("Normal", None, <<Char("o")>>, Act("MoveCursor", <<"1", "0">>)),
    Binding("Normal", Some("Normal"), <<Char("s")>>, Act("SwitchMode", <<"Insert", "Before">>)),
    Binding("Normal", Some("Normal"), <<Shift("S")>>, Act("SwitchMode", <<"Insert", "Beginning">>)),
    Binding("Normal", Some("Normal"), <<Char("a")>>, Act("SwitchMode", <<"Insert", "After">>)),
    Binding("Normal", Some("Normal"), <<Shift("A")>>, Act("SwitchMode", <<"Insert", "End">>)),
    Binding("Normal", Some("Normal"), <<Char("x")>>, Act("DeleteChar", <<>>)),
    Binding("Normal", Some("Normal"), <<Char("d"), Char("d")>>, Act("DeleteLine", <<>>)),
    Binding("Normal", None, <<Char("g"), Char("g")>>, Act("TopOfBuffer", <<>>)),
    Binding("Normal", None, <<Shift("G")>>, Act("BotOfBuffer", <<>>)),
    Binding("Normal", Some("Normal"), <<Char("f")>>, Act("NewLine", <<"Under">>)),
    Binding("Normal", Some("Normal"), <<Shift("F")>>, Act("NewLine", <<"Over">>)),
    Binding("Normal", None, <<Char(":")>>, Act("SwitchMode", <<"Command", ":">>)),
    Binding("Normal", None, <<Char("v")>>, Act("SwitchMode", <<"Visual">>)),
    Binding("Normal", None, <<Char(" "), Char("f"), Char("f")>>, Act("Minibuffer", <<"File">>)),
    Binding("Normal", None, <<Char(" "), Char("f"), Char("b")>>, Act("Minibuffer", <<"Buffer">>)),
    Binding("Normal", None, <<Code("Esc")>>, Act("Escape", <<>>)),
    Binding("Insert", None, <<Code("Esc")>>, Act("SwitchMode", <<"Normal">>)),
    Binding("Insert", None, <<Code("Enter")>>, Act("NewLine", <<"Under">>)),
    Binding("Visual", None, <<Char("n")>>, Act("MoveCursor", <<"-1", "0">>)),
    Binding("Visual", None, <<Char("e")>>, Act("MoveCursor", <<"0", "1">>)),
    Binding("Visual", None, <<Char("i")>>, Act("MoveCursor", <<"0", "-1">>)),
    Binding("Visual", None, <<Char("o")>>, Act("MoveCursor", <<"1", "0">>)),
    Binding("Visual", None, <<Char("d")>>, Act("DeleteChar", <<>>)),
    Binding("Visual", None, <<Char("x")>>, Act("DeleteChar", <<>>)),
    Binding("Visual", None, <<Code("Esc")>>, Act("SwitchMode", <<"Normal">>)),
    Binding("Visual", None, <<Char("g"), Char("g")>>, Act("TopOfBuffer", <<>>)),
    Binding("Visual", None, <<Shift("G")>>, Act("BotOfBuffer", <<>>)),
    Binding("Command", None, <<Code("Esc")>>, Act("SwitchMode", <<"Normal">>)),
    Binding("Command", None, <<Code("Enter")>>, Act("ExecuteCommand", <<>>)),
    Binding("Command", None, <<Code("Left")>>, Act("MoveCursor", <<"-1", "0">>)),
    Binding("Command", None, <<Code("Right")>>, Act("MoveCursor", <<"1", "0">>)),
    Binding("Minibuffer", None, <<Code("Esc")>>, Act("Escape", <<>>)),
    Binding("Minibuffer", None, <<Code("Enter")>>, Act("ExecuteMbCommand", <<>>)),
    Binding("Minibuffer", None, <<Code("Left")>>, Act("MoveMbCursor", <<"-1", "0">>)),
    Binding("Minibuffer", None, <<Code("Down")>>, Act("MoveMbCursor", <<"0", "1">>)),
    Binding("Minibuffer", None, <<Code("Up")>>, Act("MoveMbCursor", <<"0", "-1">>)),
    Binding("Minibuffer", None, <<Code("Right")>>, Act("MoveMbCursor", <<"1", "0">>)),
    Binding("Minibuffer", None, <<Code("Tab")>>, Act("Append", <<>>)) }

\* KeybindingManager::new.  The field `added` holds the entries registered
\* after setup_default_bindings; mode_bindings(km) is the whole table.
KeybindingManagerNew ==
  [added |-> {},
   current_buffer_kind |-> "Normal",
   current_sequence |-> <<>>]

same_key(e, f) == e.mode = f.mode /\ e.kind = f.kind /\ e.seq = f.seq

\* the mode_bindings table: an added entry replaces the default of the same key
mode_bindings(km) ==
  { d \in DefaultBindings : \A e \in km.added : ~same_key(d, e) } \cup km.added

\* KeybindingManager::add_binding: HashMap::insert replaces the entry of the key
add_binding(km, mode, buffer_kind, key_sequence, action) ==
  LET new == Binding(mode, buffer_kind, key_sequence, action) IN
  [km EXCEPT !.added = { e \in km.added : ~same_key(e, new) } \cup {new}]

\* KeybindingManager::set_buffer_kind
set_buffer_kind(km, kind) == [km EXCEPT !.current_buffer_kind = kind]

\* the default bindings by mode and Option<BufferKind>, as the nested HashMaps
\* hold them
DefaultTable ==
  [mode \in Modes |->
    [buffer_kind \in {None} \cup { Some(k) : k \in BufferKinds } |->
      { d \in DefaultBindings : d.mode = mode /\ d.kind = buffer_kind }]]

\* mode_bindings.get(mode).get(kind).and_then(|bindings| bindings.get(sequence))
get_binding(km, mode, buffer_kind, key_sequence) ==
  LET added == { e \in km.added :
                   e.mode = mode /\ e.kind = buffer_kind /\ e.seq = key_sequence }
      default == { d \in DefaultTable[mode][buffer_kind] : d.seq = key_sequence }
  IN  IF added # {}
        THEN Some((CHOOSE e \in added : TRUE).action)
        ELSE IF default # {}
          THEN Some((CHOOSE d \in default : TRUE).action)
          ELSE None

\* handle_normal_mode that looks the wildcard binding up first
handle_normal_mode_wildcard_first(km, current_mode) ==
  LET wildcard == get_binding(km, current_mode, None, km.current_sequence)
  IN  IF is_some(wildcard)
        THEN wildcard
        ELSE get_binding(km, current_mode, Some(km.current_buffer_kind),
                         km.current_sequence)

\* KeybindingManager::handle_normal_mode: the binding of the current buffer
\* kind first, the wildcard binding second
handle_normal_mode(km, current_mode) ==
  LET specific == get_binding(km, current_mode, Some(km.current_buffer_kind),
                              km.current_sequence)
  IN  IF is_some(specific)
        THEN specific
        ELSE get_binding(km, current_mode, None, km.current_sequence)

\* KeybindingManager::handle_visual_mode
handle_visual_mode(km, current_mode) ==
  LET specific == get_binding(km, current_mode, Some(km.current_buffer_kind),
                              km.current_sequence)
  IN  IF is_some(specific)
        THEN specific
        ELSE get_binding(km, current_mode, None, km.current_sequence)

is_char(key_binding) == key_binding.key[1] = "Char"

\* handle_insert_mode that consults the bindings before the literal keys
handle_insert_mode_table_first(km, current_mode, key_binding) ==
  LET bound == handle_normal_mode(km, current_mode) IN
  IF is_some(bound)
    THEN bound
    ELSE CASE is_char(key_binding) /\ key_binding.modifiers \in {"NONE", "SHIFT"} ->
                Some(Act("AddChar", <<key_binding.key[2]>>))
           [] key_binding.key = <<"Tab">> /\ key_binding.modifiers \in {"NONE", "SHIFT"} ->
                Some(Act("AddTab", <<>>))
           [] key_binding.key = <<"Backspace">> -> Some(Act("DeleteChar", <<>>))
           [] key_binding.key = <<"Enter">> -> Some(Act("NewLine", <<"Under">>))
           [] OTHER -> None

\* KeybindingManager::handle_insert_mode
handle_insert_mode(km, current_mode, key_binding) ==
  CASE is_char(key_binding) /\ key_binding.modifiers \in {"NONE", "SHIFT"} ->
         Some(Act("AddChar", <<key_binding.key[2]>>))
    [] key_binding.key = <<"Tab">> /\ key_binding.modifiers \in {"NONE", "SHIFT"} ->
         Some(Act("AddTab", <<>>))
    [] key_binding.key = <<"Backspace">> -> Some(Act("DeleteChar", <<>>))
    [] key_binding.key = <<"Enter">> -> Some(Act("NewLine", <<"Under">>))
    [] OTHER -> handle_normal_mode(km, current_mode)

\* handle_command_mode that answers Enter and Tab as handle_insert_mode does
handle_command_mode_literal_enter(km, current_mode, key_binding) ==
  handle_insert_mode(km, current_mode, key_binding)

\* KeybindingManager::handle_command_mode
handle_command_mode(km, current_mode, key_binding) ==
  CASE is_char(key_binding) /\ key_binding.modifiers \in {"NONE", "SHIFT"} ->
         Some(Act("AddChar", <<key_binding.key[2]>>))
    [] key_binding.key = <<"Backspace">> -> Some(Act("DeleteChar", <<>>))
    [] OTHER -> handle_normal_mode(km, current_mode)

\* KeybindingManager::handle_minibuffer_mode
handle_minibuffer_mode(km, current_mode, key_binding) ==
  CASE is_char(key_binding) /\ key_binding.modifiers \in {"NONE", "SHIFT"} ->
         Some(Act("AddMbChar", <<key_binding.key[2]>>))
    [] key_binding.key = <<"Backspace">> -> Some(Act("DeleteMbChar", <<>>))
    [] key_binding.key = <<"Esc">> -> Some(Act("Escape", <<>>))
    [] OTHER -> handle_normal_mode(km, current_mode)

\* self.mode_bindings.get(current_mode) is Some
has_mode(km, mode) ==
  \/ \E d \in DefaultBindings : d.mode = mode
  \/ \E e \in km.added : e.mode = mode

\* starts_with that accepts the whole sequence only
starts_with_whole(seq, prefix) == seq = prefix

\* seq.keys.starts_with(&self.current_sequence.keys)
starts_with(seq, prefix) ==
  Len(prefix) <= Len(seq) /\ SubSeq(seq, 1, Len(prefix)) = prefix

\* bindings.keys().any(|seq| seq.keys.starts_with(&self.current_sequence.keys))
any_starts_with(km, mode, buffer_kind) ==
  \/ \E e \in km.added :
       e.mode = mode /\ e.kind = buffer_kind /\ starts_with(e.seq, km.current_sequence)
  \/ \E d \in DefaultTable[mode][buffer_kind] : starts_with(d.seq, km.current_sequence)

\* handle_input that returns a matched action without clearing the sequence
handle_input_keeps_matched(km, current_mode, key_event) ==
  LET km1 == [km EXCEPT !.current_sequence = Append(km.current_sequence, key_event)]
      action ==
        CASE current_mode = "Normal" -> handle_normal_mode(km1, current_mode)
          [] current_mode = "Insert" -> handle_insert_mode(km1, current_mode, key_event)
          [] current_mode = "Visual" -> handle_visual_mode(km1, current_mode)
          [] current_mode = "Command" -> handle_command_mode(km1, current_mode, key_event)
          [] current_mode = "Minibuffer" -> handle_minibuffer_mode(km1, current_mode, key_event)
      cleared == [km1 EXCEPT !.current_sequence = <<>>]
  IN  IF is_some(action)
        THEN [km |-> km1, action |-> action]
        ELSE IF has_mode(km1, current_mode)
          THEN LET sequence_matches ==
                     \/ any_starts_with(km1, current_mode, None)
                     \/ any_starts_with(km1, current_mode, Some(km1.current_buffer_kind))
               IN  IF sequence_matches
                     THEN [km |-> km1, action |-> None]
                     ELSE [km |-> cleared, action |-> None]
          ELSE [km |-> km1, action |-> None]

\* handle_input that keeps a sequence no binding starts with
handle_input_keeps_pending(km, current_mode, key_event) ==
  LET km1 == [km EXCEPT !.current_sequence = Append(km.current_sequence, key_event)]
      action ==
        CASE current_mode = "Normal" -> handle_normal_mode(km1, current_mode)
          [] current_mode = "Insert" -> handle_insert_mode(km1, current_mode, key_event)
          [] current_mode = "Visual" -> handle_visual_mode(km1, current_mode)
          [] current_mode = "Command" -> handle_command_mode(km1, current_mode, key_event)
          [] current_mode = "Minibuffer" -> handle_minibuffer_mode(km1, current_mode, key_event)
  IN  IF is_some(action)
        THEN [km |-> [km1 EXCEPT !.current_sequence = <<>>], action |-> action]
        ELSE [km |-> km1, action |-> None]

\* KeybindingManager::handle_input; the outcome is the manager and the
\* Option<action> returned
handle_input(km, current_mode, key_event) ==
  LET km1 == [km EXCEPT !.current_sequence = Append(km.current_sequence, key_event)]
      action ==
        CASE current_mode = "Normal" -> handle_normal_mode(km1, current_mode)
          [] current_mode = "Insert" -> handle_insert_mode(km1, current_mode, key_event)
          [] current_mode = "Visual" -> handle_visual_mode(km1, current_mode)
          [] current_mode = "Command" -> handle_command_mode(km1, current_mode, key_event)
          [] current_mode = "Minibuffer" -> handle_minibuffer_mode(km1, current_mode, key_event)
      cleared == [km1 EXCEPT !.current_sequence = <<>>]
  IN  IF is_some(action)
        THEN [km |-> cleared, action |-> action]
        ELSE IF has_mode(km1, current_mode)
          THEN LET sequence_matches ==
                     \/ any_starts_with(km1, current_mode, None)
                     \/ any_starts_with(km1, current_mode, Some(km1.current_buffer_kind))
               IN  IF sequence_matches
                     THEN [km |-> km1, action |-> None]
                     ELSE [km |-> cleared, action |-> None]
          ELSE [km |-> km1, action |-> None]

(***************************************************************************)
(* Minibuffer                                                              *)
(***************************************************************************)
\* the byte of a character of a title
byte(c) == IF c = "a" THEN 97 ELSE IF c = "b" THEN 98 ELSE IF c = "/" THEN 47 ELSE 32

\* the order of String: lexicographic by bytes
RECURSIVE str_lt(_, _)
str_lt(s, t) ==
  IF t = <<>> THEN FALSE
  ELSE IF s = <<>> THEN TRUE
  ELSE IF byte(Head(s)) # byte(Head(t)) THEN byte(Head(s)) < byte(Head(t))
  ELSE str_lt(Tail(s), Tail(t))

\* str::contains
contains(s, pattern) ==
  \E i \in 0..(Len(s) - Len(pattern)) : SubSeq(s, i + 1, i + Len(pattern)) = pattern

RECURSIVE insert_sorted(_, _)
insert_sorted(v, e) ==
  IF v = <<>> THEN <<e>>
  ELSE IF str_lt(e, Head(v)) THEN <<e>> \o v
  ELSE <<Head(v)>> \o insert_sorted(Tail(v), e)

\* Vec<String>::sort
RECURSIVE sort(_)
sort(v) == IF v = <<>> THEN <<>> ELSE insert_sorted(sort(Tail(v)), Head(v))

\* the loop of Minibuffer::fill that collects the entries containing the input
RECURSIVE matching(_, _)
matching(buffer_list, input) ==
  IF buffer_list = <<>> THEN <<>>
  ELSE (IF contains(Head(buffer_list), input) THEN <<Head(buffer_list)>> ELSE <<>>)
         \o matching(Tail(buffer_list), input)

\* Minibuffer::fill, for the kinds Buffer and Nop
fill(mb) ==
  IF mb.kind.tag = "Buffer"
    THEN [mb EXCEPT !.prefix = <<"Find Buffer:">>,
                    !.content = sort(matching(mb.kind.buffer_list, mb.input))]
    ELSE [mb EXCEPT !.content = <<>>]

\* Minibuffer::add_char
mb_add_char(mb, character) ==
  LET matched_len == Len(mb.matched_input) IN
  IF mb.cursor.x < matched_len
       \/ mb.cursor.x - matched_len > Len(mb.input)
       \/ ~is_char_boundary(mb.input, mb.cursor.x - matched_len)
    THEN Panic(mb)
    ELSE Ok([mb EXCEPT !.input = str_insert(mb.input, mb.cursor.x - matched_len, character),
                       !.cursor.x = mb.cursor.x + 1])

\* Minibuffer::remove_char, for the kinds Buffer and Nop
mb_remove_char(mb) ==
  LET matched_len == Len(mb.matched_input)
      step_left(m) == IF m.cursor.x > 0 THEN [m EXCEPT !.cursor.x = m.cursor.x - 1] ELSE m
  IN  IF mb.input = <<>>
        THEN Ok(step_left([mb EXCEPT !.matched_input =
                             IF mb.matched_input = <<>>
                               THEN <<>>
                               ELSE SubSeq(mb.matched_input, 1, matched_len - 1)]))
        ELSE IF mb.cursor.x < matched_len + 1
                  \/ ~can_remove(mb.input, mb.cursor.x - matched_len - 1)
          THEN Panic(mb)
          ELSE Ok(step_left([mb EXCEPT !.input =
                               str_remove(mb.input, mb.cursor.x - matched_len - 1)]))

\* Minibuffer::move_cursor; i32::clamp panics when its lower bound exceeds
\* its upper bound, which it does when the candidate list is empty
mb_move_cursor(mb, x, y) ==
  IF 0 > Len(mb.content) - 1
    THEN Panic(mb)
    ELSE LET new_y == clamp(as_i32(mb.cursor.y) + y, 0, Len(mb.content) - 1)
             new_x == clamp(as_i32(mb.cursor.x) + x, 0, Len(mb.matched_input) + Len(mb.input))
         IN  Ok([mb EXCEPT !.cursor.y = new_y, !.cursor.x = new_x, !.cursor.desired_x = new_x])

\* Minibuffer::append, for the kinds Buffer and Nop; overflow_checks tells
\* whether `item.len() - self.input.len()` panics below zero or wraps
append(mb, overflow_checks) ==
  IF mb.cursor.y < Len(mb.content)
    THEN LET item == mb.content[mb.cursor.y + 1] IN
         IF Len(item) < Len(mb.input) /\ overflow_checks
           THEN Panic(mb)
           ELSE Ok([mb EXCEPT !.cursor.y = 0,
                              !.cursor.x = (mb.cursor.x + Len(item) - Len(mb.input)) % UsizeMod,
                              !.input = item])
    ELSE Ok(mb)

\* the entries of buffer_list that contain item, by index
matching_indices(buffer_list, item) ==
  { num \in 0..(Len(buffer_list) - 1) : contains(buffer_list[num + 1], item) }

\* Minibuffer::execute, for the kind Buffer: the index OpenBufferAction is
\* created with, or None for NoMatchError
execute(mb) ==
  LET item == IF Len(mb.content) > 1
                THEN IF mb.cursor.y < Len(mb.content) THEN mb.content[mb.cursor.y + 1] ELSE <<>>
                ELSE mb.input
      found == matching_indices(mb.kind.buffer_list, item)
  IN  IF found = {}
        THEN None
        ELSE Some(CHOOSE num \in found : \A other \in found : num <= other)

\* MinibufferAction::execute with MinibufferKind::Buffer, after the switch
\* of mode: the titles of the open buffers become the kind's list
minibuffer_action(mb, buffers) == Ok(fill([mb EXCEPT !.kind = MinibufferKindBuffer(buffers)]))

\* AddMbCharAction::execute that leaves the candidate list as it was
add_mb_char_without_fill(mb, character) == mb_add_char(mb, character)

\* AddMbCharAction::execute
add_mb_char(mb, character) ==
  LET o == mb_add_char(mb, character) IN
  IF o.r = "Ok" THEN Ok(fill(o.b)) ELSE o

\* DeleteMbCharAction::execute
delete_mb_char(mb) ==
  LET o == mb_remove_char(mb) IN
  IF o.r = "Ok" THEN Ok(fill(o.b)) ELSE o

\* MoveMbCursorAction::execute
move_mb_cursor(mb, x, y) ==
  LET o == mb_move_cursor(mb, x, y) IN
  IF o.r = "Ok" THEN Ok(fill(o.b)) ELSE o

\* AppendAction::execute
append_action(mb, overflow_checks) ==
  LET o == append(mb, overflow_checks) IN
  IF o.r = "Ok" THEN Ok(fill(o.b)) ELSE o

\* MinibufferAction::execute with MinibufferKind::File, after the switch of
\* mode; the entries of the directory, which fill lists, are not modelled
minibuffer_action_file(mb) ==
  Ok([mb EXCEPT !.kind = MinibufferKindFile, !.prefix = <<"Find File:">>, !.content = <<>>])

\* OpenBufferAction::execute that does not look at the number of buffers
open_buffer_unchecked(index, buffers, active) == [active |-> index, r |-> "Ok"]

\* OpenBufferAction::execute: the active buffer after the action; an index
\* outside the open buffers is an IndexError and changes nothing
open_buffer(index, buffers, active) ==
  IF index < Len(buffers)
    THEN [active |-> index, r |-> "Ok"]
    ELSE [active |-> active, r |-> "IndexError"]

\* OpenFileAction::execute; from_file_ok tells whether Buffer::from_file
\* returns a buffer, whose title is title
open_file(title, buffers, active, from_file_ok) ==
  IF from_file_ok
    THEN LET added == Append(buffers, title) IN
         [buffers |-> added, active |-> Len(added) - 1, r |-> "Ok"]
    ELSE [buffers |-> buffers, active |-> active, r |-> "FileError"]

\* ExecuteMbCommandAction::execute that resets the minibuffer before it
\* returns NoMatchError
execute_mb_command_resets(mb) ==
  IF is_some(execute(mb))
    THEN Ok(fill(MinibufferDefault))
    ELSE Out(fill(MinibufferDefault), "NoMatchError")

\* ExecuteMbCommandAction::execute, for the kind Buffer: NoMatchError leaves
\* the minibuffer as it is; otherwise the buffer is opened, the minibuffer is
\* reset and filled
execute_mb_command(mb) ==
  IF is_some(execute(mb))
    THEN Ok(fill(MinibufferDefault))
    ELSE Out(mb, "NoMatchError")

(***************************************************************************)
(* Command parser                                                          *)
(***************************************************************************)
\* a parser that reads the command letter by letter and skips the letters it
\* does not know
RECURSIVE parse_letter_by_letter(_)
parse_letter_by_letter(input) ==
  IF input = <<>>
    THEN <<>>
    ELSE (CASE Head(input) = "w" -> <<"WriteBufferAction">>
            [] Head(input) = "q" -> <<"QuitAction">>
            [] OTHER -> <<>>) \o parse_letter_by_letter(Tail(input))

\* CommandParser::parse
parse(input) ==
  CASE input = <<"w", "q">> -> <<"WriteBufferAction", "QuitAction">>
    [] input = <<"w">> -> <<"WriteBufferAction">>
    [] input = <<"q">> -> <<"QuitAction">>
    [] OTHER -> <<>>

\* Buffer::get_command
get_command(b) == b.command_line.input \o b.command_line.suffix

\* Buffer::write_buffer; src is the buffer's ContentSource, create_ok and
\* write_ok tell whether File::create and write_all succeed.  File::create
\* truncates the file; the outcome carries what the file holds afterwards.
write_buffer(b, src, on_disk, create_ok, write_ok) ==
  IF ~b.mutable
    THEN [r |-> "Ok", disk |-> on_disk]
    ELSE IF src = "File"
      THEN IF create_ok
             THEN [r |-> "Ok", disk |-> IF write_ok THEN Some(b.content) ELSE Some(<<>>)]
             ELSE [r |-> "WriteToSourceError", disk |-> on_disk]
      ELSE [r |-> "Ok", disk |-> on_disk]

\* the loop `for command in commands { command.execute(editor)?; }`: ed is
\* the editor's state so far, with the actions that have returned Ok in ran
RECURSIVE run_commands(_, _, _, _, _)
run_commands(commands, b, ed, create_ok, write_ok) ==
  IF commands = <<>>
    THEN ed
    ELSE IF Head(commands) = "WriteBufferAction"
      THEN LET w == write_buffer(b, ed.source, ed.disk, create_ok, write_ok) IN
           IF w.r = "Ok"
             THEN run_commands(Tail(commands), b,
                               [ed EXCEPT !.disk = w.disk,
                                          !.ran = Append(ed.ran, "WriteBufferAction")],
                               create_ok, write_ok)
             ELSE [ed EXCEPT !.disk = w.disk, !.r = w.r]
      ELSE run_commands(Tail(commands), b,
                        [ed EXCEPT !.is_running = FALSE,
                                   !.ran = Append(ed.ran, "QuitAction")],
                        create_ok, write_ok)

\* ExecuteCommandAction::execute that leaves the buffer in Command mode
execute_command_stays_in_command(b, ed, create_ok, write_ok) ==
  LET input == get_command(b)
      commands == parse(input)
      done == run_commands(commands, b, [ed EXCEPT !.ran = <<>>, !.r = "Ok"],
                           create_ok, write_ok)
  IN  [b |-> b,
       ed |-> done,
       execution |-> [input |-> input, commands |-> commands, ran |-> done.ran, r |-> done.r]]

\* ExecuteCommandAction::execute: the commands parsed from the command line
\* are executed in order; the first that fails ends the action with its
\* error, otherwise the buffer returns to Normal mode
execute_command(b, ed, create_ok, write_ok) ==
  LET input == get_command(b)
      commands == parse(input)
      done == run_commands(commands, b, [ed EXCEPT !.ran = <<>>, !.r = "Ok"],
                           create_ok, write_ok)
  IN  [b |-> IF done.r = "Ok" THEN switch_mode(b, ModeParamsNormal).b ELSE b,
       ed |-> done,
       execution |-> [input |-> input, commands |-> commands, ran |-> done.ran, r |-> done.r]]

(***************************************************************************)
(* CommandLineManager: the command line that finds files                   *)
(***************************************************************************)
\* The file system of the model, each directory and file by the components
\* of its absolute path: the directories /, /a and /a/b, the files /b and
\* /a/a.  The current directory of the process is /.
FsDirs == { <<>>, << <<"a">> >>, << <<"a">>, <<"b">> >> }

FsFiles == { << <<"b">> >>, << <<"a">>, <<"a">> >> }

\* the length of the name a path string starts with
RECURSIVE name_len(_)
name_len(s) == IF s = <<>> \/ Head(s) = "/" THEN 0 ELSE 1 + name_len(Tail(s))

\* Path::components: the names between the separators
RECURSIVE components(_)
components(s) ==
  IF s = <<>> THEN <<>>
  ELSE IF Head(s) = "/" THEN components(Tail(s))
  ELSE << SubSeq(s, 1, name_len(s)) >> \o components(SubSeq(s, name_len(s) + 1, Len(s)))

\* Path::is_dir, Path::is_file and Path::exists; a path that ends in a
\* separator names a directory or nothing
is_dir(s) == s # <<>> /\ components(s) \in FsDirs

is_file(s) == s # <<>> /\ s[Len(s)] # "/" /\ components(s) \in FsFiles

exists(s) == is_dir(s) \/ is_file(s)

\* a path string without the separators it ends with
RECURSIVE trim_separators(_)
trim_separators(s) ==
  IF s # <<>> /\ s[Len(s)] = "/" THEN trim_separators(SubSeq(s, 1, Len(s) - 1)) ELSE s

\* a path string without the name it ends with
RECURSIVE trim_name(_)
trim_name(s) ==
  IF s # <<>> /\ s[Len(s)] # "/" THEN trim_name(SubSeq(s, 1, Len(s) - 1)) ELSE s

\* PathBuf::pop: the path is cut down to its parent, if it has one
path_pop(s) ==
  LET named == trim_separators(s)
      parent == trim_separators(trim_name(named))
  IN  IF named = <<>> THEN s
      ELSE IF parent = <<>> /\ s[1] = "/" THEN <<"/">>
      ELSE parent

\* PathBuf::push of a name
path_push(s, name) == s \o (IF s # <<>> /\ s[Len(s)] # "/" THEN <<"/">> ELSE <<>>) \o name

\* fs::read_dir: the paths of the entries of a directory
read_dir(s) ==
  { path_push(s, name) : name \in { d[Len(d)] : d \in { e \in (FsDirs \cup FsFiles) :
        e # <<>> /\ SubSeq(e, 1, Len(e) - 1) = components(s) } } }

\* the strings of a set in the order of sort()
RECURSIVE sorted(_)
sorted(S) ==
  IF S = {} THEN <<>>
  ELSE LET least == CHOOSE e \in S : \A other \in S : ~str_lt(other, e)
       IN  <<least>> \o sorted(S \ {least})

\* CommandLineManager::load_directory: the candidates are the entries of the
\* directory of the input whose path contains the suffix, directories first
load_directory(cl) ==
  LET path == IF exists(cl.input) THEN cl.input ELSE path_pop(cl.input)
      entries == { e \in read_dir(path) : contains(e, cl.suffix) }
  IN  IF is_dir(path)
        THEN [cl EXCEPT !.content = sorted({ e \in entries : is_dir(e) })
                                      \o sorted({ e \in entries : is_file(e) })]
        ELSE [cl EXCEPT !.content = <<>>]

\* commit_suffix that does not ask whether the path exists
commit_suffix_unchecked(cl) ==
  IF cl.suffix # <<>> /\ cl.suffix[Len(cl.suffix)] = "/"
    THEN [cl EXCEPT !.input = cl.input \o cl.suffix, !.suffix = <<>>, !.cursor.y = 0]
    ELSE cl

\* the part of CommandLineManager::add_char that moves a suffix naming a
\* directory into the input
commit_suffix(cl) ==
  IF cl.suffix # <<>> /\ cl.suffix[Len(cl.suffix)] = "/" /\ exists(cl.input \o cl.suffix)
    THEN [cl EXCEPT !.input = cl.input \o cl.suffix, !.suffix = <<>>, !.cursor.y = 0]
    ELSE cl

\* CommandLineManager::add_char
clm_add_char(cl, character) ==
  CASE cl.state \in {"Default", "SwitchBuffer"} ->
         IF cl.cursor.x < Len(cl.prefix)
              \/ cl.cursor.x - Len(cl.prefix) > Len(cl.input)
              \/ ~is_char_boundary(cl.input, cl.cursor.x - Len(cl.prefix))
           THEN Panic(cl)
           ELSE Ok([cl EXCEPT !.input = str_insert(cl.input, cl.cursor.x - Len(cl.prefix), character),
                              !.cursor.x = cl.cursor.x + 1])
    [] cl.state = "FindFile" ->
         LET at == cl.cursor.x - Len(cl.prefix) - Len(cl.input) IN
         IF at < 0 \/ at > Len(cl.suffix) \/ ~is_char_boundary(cl.suffix, at)
           THEN Panic(cl)
           ELSE Ok(load_directory(commit_suffix(
                  [cl EXCEPT !.suffix = str_insert(cl.suffix, at, character),
                             !.cursor.x = cl.cursor.x + 1])))
    [] OTHER -> Ok(cl)

\* CommandLineManager::remove_char; overflow_checks tells whether
\* `self.cursor.x - (self.prefix.len() + 1) - self.suffix.len()` panics below
\* zero or wraps (and then is not less than the length of the input)
clm_remove_char(cl, overflow_checks) ==
  LET before == cl.cursor.x - (Len(cl.prefix) + 1)
      popped == path_pop(cl.input)
      parent == IF popped # <<"/">> THEN popped \o <<"/">> ELSE <<"/">>
  IN  IF cl.cursor.x < Len(cl.prefix) + 1
        THEN Ok(cl)
      ELSE IF before - Len(cl.suffix) < 0
        THEN IF overflow_checks THEN Panic(cl) ELSE Ok(cl)
      ELSE IF before - Len(cl.suffix) >= Len(cl.input)
        THEN Ok(cl)
      ELSE IF cl.state = "FindFile"
        THEN IF cl.suffix = <<>>
               THEN Ok(load_directory([cl EXCEPT !.input = parent,
                                                 !.cursor.x = Len(cl.prefix) + Len(parent),
                                                 !.cursor.y = 0]))
               ELSE IF before - Len(cl.input) < 0 \/ ~can_remove(cl.suffix, before - Len(cl.input))
                 THEN Panic(cl)
                 ELSE Ok(load_directory([cl EXCEPT
                           !.suffix = str_remove(cl.suffix, before - Len(cl.input)),
                           !.cursor.x = cl.cursor.x - 1]))
      ELSE IF ~can_remove(cl.input, before)
        THEN Panic(cl)
        ELSE Ok([cl EXCEPT !.input = str_remove(cl.input, before),
                           !.cursor.x = cl.cursor.x - 1])

\* CommandLineManager::move_cursor; i32::clamp panics when its lower bound
\* exceeds its upper bound, which it does when there are no candidates
clm_move_cursor(cl, x, y) ==
  IF 0 > Len(cl.content) - 1
    THEN Panic(cl)
    ELSE LET new_y == clamp(as_i32(cl.cursor.y) + y, 0, Len(cl.content) - 1)
             current_line_len == Len(cl.prefix) + Len(cl.input) + Len(cl.suffix)
             new_x == clamp(as_i32(cl.cursor.x) + x, Len(cl.prefix), current_line_len)
         IN  IF x # 0
               THEN Ok([cl EXCEPT !.cursor.y = new_y, !.cursor.x = new_x,
                                  !.cursor.desired_x = new_x])
               ELSE Ok([cl EXCEPT !.cursor.y = new_y])

\* Buffer::find_file: the candidates are the entries of the directory, and
\* Command mode is entered in the FindFile state with the directory as input
find_file(b, path) ==
  LET listed == load_directory([b.command_line EXCEPT !.input = path, !.suffix = <<>>])
  IN  switch_mode([b EXCEPT !.command_line.content = listed.content],
                  ModeParamsCommand(<<"Find File ">>, path \o <<"/">>, "FindFile"))

(***************************************************************************)
(* The buffer as a state machine: one action per operation of the Buffer   *)
(***************************************************************************)
RECURSIVE total_bytes(_)
total_bytes(content) ==
  IF content = <<>> THEN 0 ELSE Len(Head(content)) + total_bytes(Tail(content))

\* the model keeps the text within MaxBytes and the command line within MaxInput
fits(b, n) ==
  /\ b.mode = "Insert" => total_bytes(b.content) + n <= MaxBytes
  /\ b.mode = "Command" => Len(b.command_line.input) + n <= MaxInput

\* contents a buffer is created with: an empty file, and two lines of text
InitContents ==
  { << <<>> >>,
    << <<" ">>, <<"C3", "A9">> >> }

\* heights of the viewport a buffer is created with
ViewportHeights == {2}

\* the arguments the key bindings pass to move_cursor
Moves == { <<-1, 0>>, <<1, 0>>, <<0, 1>>, <<0, -1>> }

\* the arguments the key bindings pass to switch_mode
ModeParamsSet ==
  { ModeParamsNormal, ModeParamsVisual,
    ModeParamsInsert("Before"), ModeParamsInsert("After"),
    ModeParamsCommand(<<":">>, <<>>, "Default") }

Apply(o) ==
  /\ buffer' = o.b
  /\ panicked' = (o.r = "Panic")
  /\ UNCHANGED <<kvars, cvars, mvars>>

\* no handle_input call observed yet
NoCall == <<>>

KeysInit ==
  /\ keybinding_manager = KeybindingManagerNew
  /\ last = NoCall

\* no command executed yet
NoExecution == <<>>

\* Editor::new: the editor is running; the active buffer has no source and
\* nothing has been written
CommandInit ==
  /\ executed = NoExecution
  /\ is_running = TRUE
  /\ source = "NoSource"
  /\ disk = None

\* the editor starts with one buffer, titled by the model "a"
MinibufferInit ==
  /\ minibuffer = MinibufferDefault
  /\ titles = << <<"a">> >>
  /\ active_buffer = 0
  /\ modes = <<"Normal">>

Init ==
  /\ buffer \in { BufferNew(c, h, TRUE) : c \in InitContents, h \in ViewportHeights }
  /\ panicked = FALSE
  /\ KeysInit
  /\ CommandInit
  /\ MinibufferInit

\* a buffer created with BufferState::locked()
InitLocked ==
  /\ buffer \in { BufferNew(c, h, FALSE) : c \in InitContents, h \in ViewportHeights }
  /\ panicked = FALSE
  /\ KeysInit
  /\ CommandInit
  /\ MinibufferInit

AddChar ==
  /\ ~panicked
  /\ \E c \in Chars :
       /\ fits(buffer, Len(Utf8(c)))
       /\ Apply(add_char(buffer, c))

AddTab ==
  /\ ~panicked
  /\ fits(buffer, tab_spaces(buffer.cursor.x, TabWidth))
  /\ Apply(add_tab(buffer))

NewLine ==
  /\ ~panicked
  /\ (buffer.mode = "Insert" \/ (buffer.mode = "Normal" /\ buffer.mutable))
       => Len(buffer.content) < MaxLines
  /\ \E direction \in {"Under", "Over"} : Apply(new_line(buffer, direction))

RemoveChar ==
  /\ ~panicked
  /\ \E overflow_checks \in BOOLEAN : Apply(remove_char(buffer, overflow_checks))

DeleteLine ==
  /\ ~panicked
  /\ Apply(delete_line(buffer))

MoveCursor ==
  /\ ~panicked
  /\ \E m \in Moves : Apply(Ok(move_cursor(buffer, m[1], m[2])))

MoveCursorToTop ==
  /\ ~panicked
  /\ Apply(Ok(move_cursor_to_top(buffer)))

MoveCursorToBot ==
  /\ ~panicked
  /\ Apply(Ok(move_cursor_to_bot(buffer)))

SwitchMode ==
  /\ ~panicked
  /\ \E params \in ModeParamsSet : Apply(switch_mode(buffer, params))

SwitchModeMinibuffer ==
  /\ ~panicked
  /\ Apply(switch_mode_minibuffer(buffer))

Next ==
  \/ AddChar
  \/ AddTab
  \/ NewLine
  \/ RemoveChar
  \/ DeleteLine
  \/ MoveCursor
  \/ MoveCursorToTop
  \/ MoveCursorToBot
  \/ SwitchMode
  \/ SwitchModeMinibuffer

Spec == Init /\ [][Next]_vars

SpecLocked == InitLocked /\ [][Next]_vars

(***************************************************************************)
(* The keybinding manager as a state machine                               *)
(***************************************************************************)
\* the key events of the model
KeyEvents ==
  { Char("g"), Char("d"), Shift("G"), Ctrl("j"),
    Code("Esc"), Code("Enter"), Code("Backspace"), Code("Tab") }

\* the bindings add_binding is called with in the model
BindModes == {"Normal", "Insert"}

BindKinds == {None, Some("Normal")}

BindSeqs ==
  { <<Char("g")>>, <<Char("g"), Char("g")>>, <<Ctrl("j"), Char("g")>>, <<Code("Enter")>> }

\* the action of a binding added in the model tells which table it was added to
UserAction(mode, buffer_kind) ==
  Act("User", <<mode, IF buffer_kind = None THEN "None" ELSE unwrap(buffer_kind)>>)

InitKeys ==
  /\ buffer = BufferNew(<< <<>> >>, 2, TRUE)
  /\ panicked = FALSE
  /\ KeysInit
  /\ CommandInit
  /\ MinibufferInit

\* one call of handle_input; `last` records the call: its arguments, the buffer
\* kind and pending sequence it found, and the action it returned
HandleInput ==
  \E current_mode \in Modes, key_event \in KeyEvents :
    LET o == handle_input(keybinding_manager, current_mode, key_event) IN
    /\ keybinding_manager' = o.km
    /\ last' = << [mode |-> current_mode,
                   kind |-> keybinding_manager.current_buffer_kind,
                   key |-> key_event,
                   before |-> keybinding_manager.current_sequence,
                   action |-> o.action] >>
    /\ UNCHANGED <<bvars, cvars, mvars>>

AddBinding ==
  /\ Cardinality(keybinding_manager.added) < MaxAdded
  /\ \E mode \in BindModes, buffer_kind \in BindKinds, key_sequence \in BindSeqs :
       keybinding_manager' = add_binding(keybinding_manager, mode, buffer_kind, key_sequence,
                                         UserAction(mode, buffer_kind))
  /\ last' = NoCall
  /\ UNCHANGED <<bvars, cvars, mvars>>

SetBufferKind ==
  /\ \E kind \in BufferKinds :
       keybinding_manager' = set_buffer_kind(keybinding_manager, kind)
  /\ last' = NoCall
  /\ UNCHANGED <<bvars, cvars, mvars>>

NextKeys ==
  \/ HandleInput
  \/ AddBinding
  \/ SetBufferKind

SpecKeys == InitKeys /\ [][NextKeys]_vars

(***************************************************************************)
(* The command line as a state machine                                     *)
(***************************************************************************)
\* the characters typed on the command line in the model
CommandChars == {"w", "q", "z"}

\* the sources of the buffer a command is executed on
Sources == {"NoSource", "File"}

InitCommand ==
  /\ buffer = BufferNew(<< <<>> >>, 2, TRUE)
  /\ panicked = FALSE
  /\ KeysInit
  /\ executed = NoExecution
  /\ is_running = TRUE
  /\ source \in Sources
  /\ disk = None
  /\ MinibufferInit

\* ':' in Normal mode
EnterCommand ==
  /\ is_running
  /\ buffer.mode = "Normal"
  /\ buffer' = switch_mode(buffer, ModeParamsCommand(<<":">>, <<>>, "Default")).b
  /\ UNCHANGED <<panicked, kvars, cvars, mvars>>

\* a character key in Command mode
TypeCommand ==
  /\ is_running
  /\ buffer.mode = "Command"
  /\ Len(buffer.command_line.input) < MaxCommand
  /\ \E c \in CommandChars : buffer' = add_char(buffer, c).b
  /\ UNCHANGED <<panicked, kvars, cvars, mvars>>

\* Enter in Command mode; `executed` records the command and what was executed
ExecuteCommand ==
  /\ is_running
  /\ buffer.mode = "Command"
  /\ \E create_ok \in BOOLEAN, write_ok \in BOOLEAN :
       LET o == execute_command(buffer, [is_running |-> is_running, source |-> source,
                                         disk |-> disk, ran |-> <<>>, r |-> "Ok"],
                                create_ok, write_ok)
       IN  /\ buffer' = o.b
           /\ executed' = << o.execution >>
           /\ is_running' = o.ed.is_running
           /\ disk' = o.ed.disk
  /\ UNCHANGED <<source, panicked, kvars, mvars>>

NextCommand ==
  \/ EnterCommand
  \/ TypeCommand
  \/ ExecuteCommand

SpecCommand == InitCommand /\ [][NextCommand]_vars

(***************************************************************************)
(* The minibuffer as a state machine                                       *)
(***************************************************************************)
\* the characters typed in the minibuffer in the model
MbChars == {"a", "b"}

\* the titles of the open buffers, in the order the buffers were opened
TitleLists ==
  { << <<"b">>, <<"a", "b">>, <<"a">> >>,
    << <<"b", "a">>, <<"a">>, <<"a">> >> }

InitMinibuffer ==
  /\ buffer = BufferNew(<< <<>> >>, 2, TRUE)
  /\ panicked = FALSE
  /\ KeysInit
  /\ CommandInit
  /\ minibuffer = MinibufferDefault
  /\ titles \in TitleLists
  /\ active_buffer \in 0..(Len(titles) - 1)
  /\ modes = [i \in 1..Len(titles) |-> "Normal"]

ApplyMb(o) ==
  /\ minibuffer' = (IF o.r = "Ok" THEN o.b ELSE minibuffer)
  /\ panicked' = (o.r = "Panic")
  /\ UNCHANGED <<buffer, titles, active_buffer, modes, kvars, cvars>>

\* the modes of the open buffers when the active one is put in mode
with_mode(mode) == [modes EXCEPT ![active_buffer + 1] = mode]

\* ' ' 'f' 'b' in Normal mode
OpenMinibuffer ==
  /\ ~panicked
  /\ buffer.mode = "Normal"
  /\ buffer' = switch_mode_minibuffer(buffer).b
  /\ modes' = with_mode("Minibuffer")
  /\ minibuffer' = minibuffer_action(minibuffer, titles).b
  /\ UNCHANGED <<panicked, titles, active_buffer, kvars, cvars>>

\* ' ' 'f' 'f' in Normal mode
OpenFileMinibuffer ==
  /\ ~panicked
  /\ buffer.mode = "Normal"
  /\ buffer' = switch_mode_minibuffer(buffer).b
  /\ modes' = with_mode("Minibuffer")
  /\ minibuffer' = minibuffer_action_file(minibuffer).b
  /\ UNCHANGED <<panicked, titles, active_buffer, kvars, cvars>>

AddMbChar ==
  /\ ~panicked
  /\ buffer.mode = "Minibuffer"
  /\ minibuffer.kind.tag = "Buffer"
  /\ Len(minibuffer.input) < MaxMbInput
  /\ \E c \in MbChars : ApplyMb(add_mb_char(minibuffer, c))

DeleteMbChar ==
  /\ ~panicked
  /\ buffer.mode = "Minibuffer"
  /\ minibuffer.kind.tag = "Buffer"
  /\ ApplyMb(delete_mb_char(minibuffer))

MoveMbCursor ==
  /\ ~panicked
  /\ buffer.mode = "Minibuffer"
  /\ minibuffer.kind.tag = "Buffer"
  /\ \E m \in Moves : ApplyMb(move_mb_cursor(minibuffer, m[1], m[2]))

AppendMb ==
  /\ ~panicked
  /\ buffer.mode = "Minibuffer"
  /\ minibuffer.kind.tag = "Buffer"
  /\ \E overflow_checks \in BOOLEAN : ApplyMb(append_action(minibuffer, overflow_checks))

\* Enter in Minibuffer mode, for the kind Buffer; the buffer that becomes the
\* active one is put in Normal mode
ExecuteMbCommand ==
  /\ ~panicked
  /\ buffer.mode = "Minibuffer"
  /\ minibuffer.kind.tag = "Buffer"
  /\ LET o == execute_mb_command(minibuffer)
         opened == open_buffer(unwrap(execute(minibuffer)), titles, active_buffer)
     IN  IF o.r = "Ok" /\ opened.r = "Ok"
           THEN /\ minibuffer' = o.b
                /\ buffer' = switch_mode(buffer, ModeParamsNormal).b
                /\ active_buffer' = opened.active
                /\ modes' = [modes EXCEPT ![opened.active + 1] = "Normal"]
           ELSE /\ minibuffer' = (IF o.r = "Ok" THEN minibuffer ELSE o.b)
                /\ UNCHANGED <<buffer, active_buffer, modes>>
  /\ UNCHANGED <<panicked, titles, kvars, cvars>>

\* the titles of the files opened in the model
FileTitles == { <<"a", "b">> }

\* Enter in Minibuffer mode, for the kind File: when the path is a file and
\* Buffer::from_file reads it, its buffer is added and becomes the active
\* one, in Normal mode, and the minibuffer is reset; otherwise nothing changes
ExecuteMbOpenFile ==
  /\ ~panicked
  /\ buffer.mode = "Minibuffer"
  /\ minibuffer.kind.tag = "File"
  /\ Len(titles) < MaxBuffers
  /\ \E path_is_file \in BOOLEAN, from_file_ok \in BOOLEAN, title \in FileTitles :
       LET opened == open_file(title, titles, active_buffer, from_file_ok) IN
       IF path_is_file /\ opened.r = "Ok"
         THEN /\ titles' = opened.buffers
              /\ active_buffer' = opened.active
              /\ modes' = [Append(modes, "Normal") EXCEPT ![opened.active + 1] = "Normal"]
              /\ minibuffer' = fill(MinibufferDefault)
              /\ buffer' = switch_mode(buffer, ModeParamsNormal).b
         ELSE UNCHANGED <<titles, active_buffer, modes, minibuffer, buffer>>
  /\ UNCHANGED <<panicked, kvars, cvars>>

\* EscapeAction::execute
Escape ==
  /\ ~panicked
  /\ minibuffer' = MinibufferDefault
  /\ buffer' = switch_mode(buffer, ModeParamsNormal).b
  /\ modes' = with_mode("Normal")
  /\ UNCHANGED <<panicked, titles, active_buffer, kvars, cvars>>

NextMinibuffer ==
  \/ OpenMinibuffer
  \/ OpenFileMinibuffer
  \/ ExecuteMbOpenFile
  \/ AddMbChar
  \/ DeleteMbChar
  \/ MoveMbCursor
  \/ AppendMb
  \/ ExecuteMbCommand
  \/ Escape

SpecMinibuffer == InitMinibuffer /\ [][NextMinibuffer]_vars

(***************************************************************************)
(* The file finder as a state machine                                      *)
(***************************************************************************)
\* the characters typed in the file finder in the model
PathChars == {"/", "a", "b"}

\* the directories find_file starts in
StartDirs == { <<"/">>, <<"/", "a">> }

InitFindFile ==
  /\ buffer \in { find_file(BufferNew(<< <<>> >>, 2, TRUE), path).b : path \in StartDirs }
  /\ panicked = FALSE
  /\ KeysInit
  /\ CommandInit
  /\ MinibufferInit

ApplyClm(o) ==
  /\ buffer' = (IF o.r = "Ok" THEN [buffer EXCEPT !.command_line = o.b] ELSE buffer)
  /\ panicked' = (o.r = "Panic")
  /\ UNCHANGED <<kvars, cvars, mvars>>

FindFileAddChar ==
  /\ ~panicked
  /\ buffer.mode = "Command"
  /\ Len(buffer.command_line.input) + Len(buffer.command_line.suffix) < MaxPath
  /\ \E c \in PathChars : ApplyClm(clm_add_char(buffer.command_line, c))

\* Backspace at a path that has no parent makes the input longer; the model
\* keeps it within MaxPath
FindFileRemoveChar ==
  /\ ~panicked
  /\ buffer.mode = "Command"
  /\ \E overflow_checks \in BOOLEAN :
       /\ Len(clm_remove_char(buffer.command_line, overflow_checks).b.input) <= MaxPath
       /\ ApplyClm(clm_remove_char(buffer.command_line, overflow_checks))

FindFileMoveCursor ==
  /\ ~panicked
  /\ buffer.mode = "Command"
  /\ \E m \in Moves : ApplyClm(clm_move_cursor(buffer.command_line, m[1], m[2]))

\* Escape in Command mode: switch_mode(ModeParams::Normal)
FindFileEscape ==
  /\ ~panicked
  /\ buffer.mode = "Command"
  /\ buffer' = switch_mode(buffer, ModeParamsNormal).b
  /\ UNCHANGED <<panicked, kvars, cvars, mvars>>

\* find_file called again in Normal mode
FindFileAgain ==
  /\ ~panicked
  /\ buffer.mode = "Normal"
  /\ \E path \in StartDirs : buffer' = find_file(buffer, path).b
  /\ UNCHANGED <<panicked, kvars, cvars, mvars>>

NextFindFile ==
  \/ FindFileAddChar
  \/ FindFileRemoveChar
  \/ FindFileMoveCursor
  \/ FindFileEscape
  \/ FindFileAgain

SpecFindFile == InitFindFile /\ [][NextFindFile]_vars

(***************************************************************************)
(* Properties of the buffer                                                *)
(***************************************************************************)
\* C1: in every reachable state the content of the buffer holds at least one
\* line.
C1_ContentNeverEmpty == Len(buffer.content) >= 1

\* C1 witness: deletions have brought a buffer that was scrolled down to a
\* single line.
C1_Witness == Len(buffer.content) = 1 /\ buffer.viewport.top > 0

\* C2: in every reachable state the cursor addresses a valid position,
\* 0 <= y < len(content) and 0 <= x <= len(content[y]).
C2_CursorValid ==
  /\ buffer.cursor.y >= 0
  /\ buffer.cursor.y < Len(buffer.content)
  /\ buffer.cursor.x >= 0
  /\ buffer.cursor.x <= Len(buffer.content[buffer.cursor.y + 1])

\* C3: whenever the content is at least as long as the viewport is high the
\* cursor line is inside the viewport, top <= y < top + height, and whenever
\* the content is shorter than the viewport, top is 0.
C3_ViewportInvariant ==
  /\ Len(buffer.content) >= buffer.viewport.height =>
       /\ buffer.viewport.top <= buffer.cursor.y
       /\ buffer.cursor.y < buffer.viewport.top + buffer.viewport.height
  /\ Len(buffer.content) < buffer.viewport.height => buffer.viewport.top = 0

\* C4: the Visual anchor is present if and only if the mode is Visual, and a
\* step that enters Visual mode sets the anchor to the cursor it finds.
C4_AnchorIffVisual ==
  /\ [](is_some(buffer.visual_start) <=> buffer.mode = "Visual")
  /\ [][(buffer.mode # "Visual" /\ buffer'.mode = "Visual")
          => buffer'.visual_start = Some(anchor(buffer.cursor))]_vars

\* C4 witness: in Visual mode, the cursor has moved to another line than the
\* anchor.
C4_Witness ==
  /\ buffer.mode = "Visual"
  /\ is_some(buffer.visual_start)
  /\ unwrap(buffer.visual_start).y # buffer.cursor.y

\* C5: no step changes the content of a buffer created with mutable = false.
C5_LockedContentUnchanged ==
  [][~buffer.mutable => buffer'.content = buffer.content]_vars

\* C10: in Insert mode, at every valid cursor position and for every
\* character, add_char followed by remove_char restores content and cursor.
C10_AddRemoveRoundTrip ==
  (/\ ~panicked
   /\ buffer.mode = "Insert"
   /\ buffer.cursor.y < Len(buffer.content)
   /\ buffer.cursor.x <= Len(buffer.content[buffer.cursor.y + 1]))
  => \A c \in Chars, overflow_checks \in BOOLEAN :
       LET added == add_char(buffer, c)
           removed == remove_char(added.b, overflow_checks)
       IN  /\ added.r = "Ok"
           /\ removed.r = "Ok"
           /\ removed.b.content = buffer.content
           /\ removed.b.cursor = buffer.cursor

\* C11: in Insert mode, at every column k with 0 <= k <= line length,
\* new_line(Under) followed by remove_char restores the content (and so the
\* line count) and leaves the cursor on the same line at column k.
C11_SplitJoinRoundTrip ==
  (/\ ~panicked
   /\ buffer.mode = "Insert"
   /\ buffer.cursor.y < Len(buffer.content)
   /\ buffer.cursor.x <= Len(buffer.content[buffer.cursor.y + 1]))
  => \A overflow_checks \in BOOLEAN :
       LET split == new_line(buffer, "Under")
           joined == remove_char(split.b, overflow_checks)
       IN  /\ split.r = "Ok"
           /\ joined.r = "Ok"
           /\ joined.b.content = buffer.content
           /\ joined.b.cursor.x = buffer.cursor.x
           /\ joined.b.cursor.y = buffer.cursor.y

\* a buffer of the given lines (height 2, mutable) in Visual mode with the
\* anchor at (ax, ay) and the cursor at (cx, cy)
selecting(content, ax, ay, cx, cy) ==
  [BufferNew(content, 2, TRUE) EXCEPT
     !.mode = "Visual",
     !.visual_start = Some([x |-> ax, y |-> ay]),
     !.visual_end = Some([x |-> ax, y |-> ay]),
     !.cursor = [x |-> cx, y |-> cy, desired_x |-> cx]]

\* the ends of the selection of a buffer in Visual mode
sel_top(b) == visual_top(unwrap(b.visual_start), b.cursor)

sel_bot(b) == visual_bottom(unwrap(b.visual_start), b.cursor)

\* the buffer in Visual mode holds a selection between two valid positions
valid_selection(b) ==
  /\ b.mode = "Visual"
  /\ is_some(b.visual_start)
  /\ b.mutable
  /\ sel_bot(b).y < Len(b.content)
  /\ sel_top(b).x <= Len(b.content[sel_top(b).y + 1])
  /\ sel_bot(b).x <= Len(b.content[sel_bot(b).y + 1])

\* n calls of remove_char in Normal mode, each with the cursor at (a, y)
RECURSIVE normal_deletes(_, _, _, _, _)
normal_deletes(b, a, y, n, overflow_checks) ==
  IF n = 0
    THEN Ok(b)
    ELSE LET o == remove_char([b EXCEPT !.mode = "Normal",
                                        !.visual_start = None,
                                        !.visual_end = None,
                                        !.cursor.x = a,
                                        !.cursor.y = y], overflow_checks)
         IN  IF o.r # "Ok" THEN o ELSE normal_deletes(o.b, a, y, n - 1, overflow_checks)

\* the text "hello world"
HelloWorld == <<"h", "e", "l", "l", "o", " ", "w", "o", "r", "l", "d">>

\* the Visual delete of b removes the bytes a..b (both included) of the one
\* line it selects, as b - a + 1 Normal deletes at column a do
removes_inclusive(b) ==
  LET top == sel_top(b)
      bot == sel_bot(b)
      line == b.content[top.y + 1]
      o == remove_char(b, TRUE)
  IN  /\ o.r = "Ok"
      /\ o.b.content = vec_set(b.content, top.y,
                               SubSeq(line, 1, top.x) \o SubSeq(line, bot.x + 2, Len(line)))
      /\ \A overflow_checks \in BOOLEAN :
           LET n == normal_deletes(b, top.x, top.y, bot.x - top.x + 1, overflow_checks)
           IN  n.r = "Ok" /\ n.b.content = o.b.content

\* C12: a Visual delete of a selection on one line, from column a to column
\* b with a <= b < line length, removes the characters a..b inclusive, the
\* same text b - a + 1 Normal-mode deletes at column a leave; on "hello world"
\* with a = 0 and b = 4 it leaves " world".
C12_SingleLineInclusive ==
  /\ (/\ ~panicked
      /\ valid_selection(buffer)
      /\ sel_top(buffer).y = sel_bot(buffer).y
      /\ sel_bot(buffer).x < Len(buffer.content[sel_bot(buffer).y + 1]))
     => removes_inclusive(buffer)
  /\ removes_inclusive(selecting(<<HelloWorld>>, 0, 0, 4, 0))
  /\ remove_char(selecting(<<HelloWorld>>, 0, 0, 4, 0), TRUE).b.content
       = << <<" ", "w", "o", "r", "l", "d">> >>

\* the lines "abc", "def", "ghi"
AbcDefGhi == << <<"a", "b", "c">>, <<"d", "e", "f">>, <<"g", "h", "i">> >>

\* the Visual delete of b, whose selection is the whole of one line, removes
\* that line and leaves the cursor at column 0 of its place
removes_whole_line(b) ==
  LET top == sel_top(b)
      o == remove_char(b, TRUE)
  IN  /\ o.r = "Ok"
      /\ o.b.content = vec_remove(b.content, top.y)
      /\ o.b.cursor.x = 0
      /\ o.b.cursor.y = top.y

\* C13: in a buffer of several lines, a Visual delete whose selection runs
\* from column 0 to the last character of one line removes that line; with
\* content ["abc","def","ghi"], anchor (0,1) and cursor (2,1) it yields
\* ["abc","ghi"] and the cursor (0,1).
C13_WholeLineRemoved ==
  /\ (/\ ~panicked
      /\ valid_selection(buffer)
      /\ Len(buffer.content) > 1
      /\ sel_top(buffer).y = sel_bot(buffer).y
      /\ sel_top(buffer).x = 0
      /\ sel_bot(buffer).x + 1 = Len(buffer.content[sel_bot(buffer).y + 1]))
     => removes_whole_line(buffer)
  /\ removes_whole_line(selecting(AbcDefGhi, 0, 1, 2, 1))

\* the Visual delete of b, whose selection spans several lines, replaces the
\* lines top.y..bottom.y by the first top.x bytes of the top line followed by
\* the bytes after bottom.x of the bottom line
merges_lines(b) ==
  LET top == sel_top(b)
      bot == sel_bot(b)
      top_line == b.content[top.y + 1]
      bottom_line == b.content[bot.y + 1]
      o == remove_char(b, TRUE)
  IN  /\ o.r = "Ok"
      /\ Len(o.b.content) = Len(b.content) - (bot.y - top.y)
      /\ o.b.content = SubSeq(b.content, 1, top.y)
                         \o << SubSeq(top_line, 1, top.x)
                                 \o SubSeq(bottom_line, bot.x + 2, Len(bottom_line)) >>
                         \o SubSeq(b.content, bot.y + 2, Len(b.content))

\* C14: a Visual delete whose selection spans several lines (top.y < bottom.y)
\* replaces the lines top.y..bottom.y by one line, the first top.x characters
\* of the top line followed by the characters after bottom.x of the bottom
\* line; the line count decreases by bottom.y - top.y and the other lines are
\* unchanged.
C14_MultiLineMerge ==
  /\ (/\ ~panicked
      /\ valid_selection(buffer)
      /\ sel_top(buffer).y < sel_bot(buffer).y)
     => merges_lines(buffer)
  /\ merges_lines(selecting(AbcDefGhi, 1, 0, 1, 2))

\* C15: a Visual delete whose selection reaches the last line of the buffer,
\* between an anchor and a cursor that cursor moves can produce (each at a
\* column from 0 to the length of its line, the end-of-line column and the
\* selection of the whole buffer included), completes: no index is out of
\* range and no subtraction goes below zero.
C15_VisualDeleteCompletes ==
  (/\ ~panicked
   /\ valid_selection(buffer)
   /\ sel_bot(buffer).y = Len(buffer.content) - 1)
  => \A overflow_checks \in BOOLEAN : remove_char(buffer, overflow_checks).r = "Ok"

\* C16: in Normal or Visual mode, for every dy (of at most MaxDy lines up or
\* down), move_cursor(0, dy) followed by move_cursor(0, 0) leaves the cursor
\* where move_cursor(0, dy) put it: on the same line, at column
\* min(desired_x, length of that line), with desired_x unchanged.
C16_ReclampIdempotent ==
  (~panicked /\ buffer.mode \in {"Normal", "Visual"})
  => \A dy \in -MaxDy..MaxDy :
       LET moved == move_cursor(buffer, 0, dy)
           again == move_cursor(moved, 0, 0)
       IN  /\ again.cursor = moved.cursor
           /\ moved.cursor.y < Len(buffer.content)
           /\ moved.cursor.x = IF buffer.cursor.desired_x < Len(buffer.content[moved.cursor.y + 1])
                                 THEN buffer.cursor.desired_x
                                 ELSE Len(buffer.content[moved.cursor.y + 1])
           /\ moved.cursor.desired_x = buffer.cursor.desired_x
           /\ again.content = buffer.content

\* C16 witness: a vertical move has put the cursor on a line shorter than the
\* desired column, which the cursor still remembers.
C16_Witness ==
  /\ ~panicked
  /\ buffer.mode \in {"Normal", "Visual"}
  /\ buffer.cursor.y < Len(buffer.content)
  /\ buffer.cursor.x = Len(buffer.content[buffer.cursor.y + 1])
  /\ buffer.cursor.x < buffer.cursor.desired_x
  /\ \E dy \in -MaxDy..MaxDy :
       move_cursor(buffer, 0, dy).cursor.x = buffer.cursor.desired_x

\* the row and the column move(dx, dy) is to reach, and the length of a line
row_after(dy) ==
  LET t == buffer.cursor.y + dy IN
  IF t < 0 THEN 0 ELSE IF t > Len(buffer.content) - 1 THEN Len(buffer.content) - 1 ELSE t

line_len(y) == Len(buffer.content[y + 1])

column_after(dx, dy) ==
  LET t == buffer.cursor.x + dx
      len == line_len(row_after(dy))
  IN  IF dx # 0
        THEN (IF t < 0 THEN 0 ELSE IF t > len THEN len ELSE t)
        ELSE (IF buffer.cursor.desired_x < len THEN buffer.cursor.desired_x ELSE len)

\* C28: in Normal or Visual mode move_cursor(dx, dy) puts the cursor on row
\* clamp(y + dy, 0, len(content) - 1); with dx # 0 on column
\* clamp(x + dx, 0, length of that row), which becomes desired_x; with dx = 0
\* on column min(desired_x, length of that row), desired_x unchanged; content,
\* mode and the Visual anchor stay as they were.
C28_MoveCursor ==
  (~panicked /\ buffer.mode \in {"Normal", "Visual"})
  => \A dx \in -MaxDy..MaxDy, dy \in -MaxDy..MaxDy :
       LET moved == move_cursor(buffer, dx, dy) IN
       /\ moved.cursor.y = row_after(dy)
       /\ moved.cursor.x = column_after(dx, dy)
       /\ moved.cursor.desired_x = (IF dx # 0 THEN column_after(dx, dy)
                                              ELSE buffer.cursor.desired_x)
       /\ moved.content = buffer.content
       /\ moved.mode = buffer.mode
       /\ moved.visual_start = buffer.visual_start
       /\ moved.visual_end = buffer.visual_end

\* the buffer in Visual mode with anchor and cursor exchanged
swapped(b) ==
  [b EXCEPT !.cursor.x = unwrap(b.visual_start).x,
            !.cursor.y = unwrap(b.visual_start).y,
            !.visual_start = Some(anchor(b.cursor))]

\* the lexicographically (y, x) smaller of two positions
smaller(p, q) == IF p.y < q.y \/ (p.y = q.y /\ p.x <= q.x) THEN p ELSE q

\* C29: the Visual delete on a mutable buffer gives the same content with
\* anchor and cursor exchanged, and either way the cursor ends on the
\* lexicographically smaller of the two positions, the anchor is gone and
\* the mode is Normal.
C29_VisualDeleteUnordered ==
  (~panicked /\ buffer.mode = "Visual" /\ is_some(buffer.visual_start) /\ buffer.mutable)
  => \A overflow_checks \in BOOLEAN :
       LET first == remove_char(buffer, overflow_checks)
           second == remove_char(swapped(buffer), overflow_checks)
           top == smaller(unwrap(buffer.visual_start), anchor(buffer.cursor))
       IN  /\ first.b.content = second.b.content
           /\ \A o \in {first, second} :
                /\ o.r = "Ok"
                /\ o.b.cursor.x = top.x
                /\ o.b.cursor.y = top.y
                /\ o.b.visual_start = None
                /\ o.b.mode = "Normal"

\* a line with the bytes of a character put in at offset x
with_char(line, x, c) ==
  SubSeq(line, 1, x) \o Utf8(c) \o SubSeq(line, x + 1, Len(line))

\* C30: add_char in Normal, Visual or Minibuffer mode returns WrongModeError
\* and leaves the buffer (content, cursor, mode, command line) as it was; in
\* Insert mode it puts the character into line y at x, leaves every other
\* line alone and advances x by exactly one.
C30_AddChar ==
  ~panicked
  => \A c \in Chars :
       LET o == add_char(buffer, c) IN
       /\ buffer.mode \in {"Normal", "Visual", "Minibuffer"}
            => /\ o.r = "WrongModeError"
               /\ o.b = buffer
       /\ buffer.mode = "Insert"
            => /\ o.r = "Ok"
               /\ Len(o.b.content) = Len(buffer.content)
               /\ \A i \in 1..Len(buffer.content) :
                    o.b.content[i] = IF i = buffer.cursor.y + 1
                                       THEN with_char(buffer.content[i], buffer.cursor.x, c)
                                       ELSE buffer.content[i]
               /\ o.b.cursor.x = buffer.cursor.x + 1
               /\ o.b.cursor.y = buffer.cursor.y
               /\ o.b.mode = "Insert"

\* a line of n spaces
RECURSIVE spaces_of(_)
spaces_of(n) == IF n = 0 THEN <<>> ELSE <<" ">> \o spaces_of(n - 1)

\* C31: in Insert mode with the cursor at column x, add_tab puts between 1
\* and 4 spaces, and nothing else, into the cursor line at x, leaves every
\* other line alone and leaves the cursor at the smallest multiple of 4
\* above x.
C31_AddTab ==
  (~panicked /\ buffer.mode = "Insert")
  => LET o == add_tab(buffer)
         x == buffer.cursor.x
         n == o.b.cursor.x - x
     IN  /\ o.r = "Ok"
         /\ n \in 1..4
         /\ o.b.cursor.x = 4 * ((x \div 4) + 1)
         /\ o.b.cursor.y = buffer.cursor.y
         /\ Len(o.b.content) = Len(buffer.content)
         /\ \A i \in 1..Len(buffer.content) :
              o.b.content[i] =
                IF i = buffer.cursor.y + 1
                  THEN SubSeq(buffer.content[i], 1, x) \o spaces_of(n)
                         \o SubSeq(buffer.content[i], x + 1, Len(buffer.content[i]))
                  ELSE buffer.content[i]

\* C32: in Normal mode on a mutable buffer, remove_char with the cursor on a
\* character removes that character and nothing else, keeps the number of
\* lines, and keeps the cursor at column x when a character followed the
\* removed one; with the cursor at the end-of-line column nothing is removed.
C32_NormalRemove ==
  (/\ ~panicked
   /\ buffer.mode = "Normal"
   /\ buffer.mutable
   /\ buffer.cursor.y < Len(buffer.content))
  => \A overflow_checks \in BOOLEAN :
       LET o == remove_char(buffer, overflow_checks)
           line == buffer.content[buffer.cursor.y + 1]
           x == buffer.cursor.x
           w == IF x < Len(line) /\ line[x + 1] = "C3" THEN 2 ELSE 1
       IN  /\ x < Len(line)
                => /\ o.r = "Ok"
                   /\ Len(o.b.content) = Len(buffer.content)
                   /\ \A i \in 1..Len(buffer.content) :
                        o.b.content[i] =
                          IF i = buffer.cursor.y + 1
                            THEN SubSeq(line, 1, x) \o SubSeq(line, x + w + 1, Len(line))
                            ELSE buffer.content[i]
                   /\ o.b.cursor.y = buffer.cursor.y
                   /\ (x + w < Len(line)) => o.b.cursor.x = x
           /\ x = Len(line)
                => /\ o.r = "Ok"
                   /\ o.b.content = buffer.content

\* C33: on a mutable buffer delete_line removes the line at cursor.y and
\* keeps the others in order when there are several lines, and blanks the line
\* when it is the only one; afterwards cursor.x = 0 and cursor.y = min(old y,
\* new len(content) - 1).  On an immutable buffer content and cursor stay as
\* they were.
C33_DeleteLine ==
  ~panicked
  => LET o == delete_line(buffer)
         y == buffer.cursor.y
         n == Len(buffer.content)
     IN  /\ o.r = "Ok"
         /\ (buffer.mutable /\ n > 1)
              => /\ Len(o.b.content) = n - 1
                 /\ \A i \in 1..(n - 1) :
                      o.b.content[i] = buffer.content[IF i <= y THEN i ELSE i + 1]
         /\ (buffer.mutable /\ n = 1)
              => o.b.content = << <<>> >>
         /\ buffer.mutable
              => /\ o.b.cursor.x = 0
                 /\ o.b.cursor.y = (IF y < Len(o.b.content) - 1 THEN y ELSE Len(o.b.content) - 1)
         /\ ~buffer.mutable
              => /\ o.b.content = buffer.content
                 /\ o.b.cursor = buffer.cursor

\* C17 as stated: from every reachable state move_cursor_to_bot yields
\* cursor.y = len(content) - 1, cursor.x = 0 and viewport.bottom() <= len(content).
C17_AsStated ==
  ~panicked
  => LET b == move_cursor_to_bot(buffer) IN
     /\ b.cursor.y = Len(b.content) - 1
     /\ b.cursor.x = 0
     /\ bottom(b.viewport) <= Len(b.content)

\* C17: from every reachable state move_cursor_to_bot yields
\* cursor.y = len(content) - 1 and cursor.x = 0; viewport.bottom() <=
\* len(content) when the content has at least as many lines as the viewport
\* is high, and viewport.top = 0 when it has fewer.
C17_MoveToBottom ==
  ~panicked
  => LET b == move_cursor_to_bot(buffer) IN
     /\ b.cursor.y = Len(b.content) - 1
     /\ b.cursor.x = 0
     /\ Len(b.content) >= b.viewport.height => bottom(b.viewport) <= Len(b.content)
     /\ Len(b.content) < b.viewport.height => b.viewport.top = 0

\* C17 witness: the cursor is at column 0 of the last line of a buffer longer
\* than the viewport, and the viewport has scrolled down to end with the content.
C17_Witness ==
  /\ ~panicked
  /\ buffer = move_cursor_to_bot(buffer)
  /\ Len(buffer.content) > buffer.viewport.height
  /\ buffer.viewport.top > 0
  /\ bottom(buffer.viewport) = Len(buffer.content)

\* the index CommandLine::add_char inserts at
cl_insert_index(cl) == cl.cursor.x - Len(cl.prefix)

\* the index CommandLine::remove_char removes at
cl_remove_index(cl) == cl.cursor.x - Len(cl.prefix) - 1

\* C19: while Command mode is active the command-line cursor satisfies
\* len(prefix) <= cursor.x <= len(prefix) + len(input) + len(suffix), the index
\* add_char inserts at and the index remove_char removes at lie inside the
\* input, and remove_char with the cursor at the left end of a non-empty input
\* changes nothing.
C19_CommandLineCursor ==
  (~panicked /\ buffer.mode = "Command")
  => LET cl == buffer.command_line IN
     /\ Len(cl.prefix) <= cl.cursor.x
     /\ cl.cursor.x <= Len(cl.prefix) + Len(cl.input) + Len(cl.suffix)
     /\ cl_insert_index(cl) >= 0
     /\ cl_insert_index(cl) <= Len(cl.input)
     /\ (cl.input # <<>> /\ cl.cursor.x > Len(cl.prefix))
          => (cl_remove_index(cl) >= 0 /\ cl_remove_index(cl) < Len(cl.input))
     /\ (cl.input # <<>> /\ cl.cursor.x = Len(cl.prefix))
          => \A overflow_checks \in BOOLEAN : remove_char(buffer, overflow_checks) = Ok(buffer)

\* C26: on a buffer created with mutable = false, switch_mode to Insert, in
\* either insert direction, changes nothing, and the buffer is never in
\* Insert mode.
C26_LockedNeverInsert ==
  (~panicked /\ ~buffer.mutable)
  => /\ buffer.mode # "Insert"
     /\ \A d \in {"Before", "After"} :
          switch_mode(buffer, ModeParamsInsert(d)).b = buffer

(***************************************************************************)
(* Properties of the file finder                                           *)
(***************************************************************************)
\* C21: in the FindFile state, when add_char leaves a suffix that ends in a
\* path separator and input + suffix names an existing directory, the suffix
\* is appended to the input and becomes empty, the cursor column is the one
\* the typed character left it at and the candidate row is 0; when input +
\* suffix names no existing path, the input is unchanged and the character
\* stays in the suffix.
C21_SuffixCommit ==
  (~panicked /\ buffer.mode = "Command" /\ buffer.command_line.state = "FindFile")
  => \A c \in PathChars :
       LET cl == buffer.command_line
           at == cl.cursor.x - Len(cl.prefix) - Len(cl.input)
           typed_suffix == SubSeq(cl.suffix, 1, at) \o <<c>> \o SubSeq(cl.suffix, at + 1, Len(cl.suffix))
           whole == cl.input \o typed_suffix
           o == clm_add_char(cl, c)
       IN  (o.r = "Ok")
           => /\ o.b.cursor.x = cl.cursor.x + 1
              /\ (typed_suffix[Len(typed_suffix)] = "/" /\ components(whole) \in FsDirs)
                   => /\ o.b.input = whole
                      /\ o.b.suffix = <<>>
                      /\ o.b.cursor.y = 0
              /\ (components(whole) \notin (FsDirs \cup FsFiles))
                   => /\ o.b.input = cl.input
                      /\ o.b.suffix = typed_suffix

\* C21 witness: the input is a directory that a typed name and separator
\* were committed to, below the directory the finder started in.
C21_Witness ==
  /\ ~panicked
  /\ buffer.mode = "Command"
  /\ buffer.command_line.state = "FindFile"
  /\ buffer.command_line.input = <<"/", "a", "/", "b", "/">>
  /\ buffer.command_line.suffix = <<>>
  /\ buffer.command_line.cursor.x = Len(buffer.command_line.prefix) + 5

\* a step leaves Command mode
leaves_command == buffer.mode = "Command" /\ buffer'.mode # "Command"

\* a step enters Command mode
enters_command == buffer.mode # "Command" /\ buffer'.mode = "Command"

\* C22: a step that leaves Command mode leaves the command line at its
\* defaults (prefix, input, suffix and candidates empty, cursor at its
\* default, state Default), and a step that enters Command mode leaves no
\* suffix of an earlier session and puts the cursor at len(prefix) +
\* len(input), on row 0.
C22_CommandLineEphemeral ==
  [][/\ leaves_command => buffer'.command_line = CommandLineDefault
     /\ enters_command =>
          /\ buffer'.command_line.suffix = <<>>
          /\ buffer'.command_line.cursor.x
               = Len(buffer'.command_line.prefix) + Len(buffer'.command_line.input)
          /\ buffer'.command_line.cursor.y = 0]_vars

(***************************************************************************)
(* Properties of the command parser                                        *)
(***************************************************************************)
\* a letter of the command is not a command letter
has_unrecognized(input) == \E i \in 1..Len(input) : input[i] \notin {"w", "q"}

\* C18: the command "wq" executes WriteBuffer then Quit, "w" executes
\* WriteBuffer, "q" executes Quit, and a command that holds an unrecognized
\* letter (such as "zz") executes nothing.
C18_CommandParser ==
  executed # NoExecution
  => LET input == executed[1].input
         commands == executed[1].commands
     IN  /\ input = <<"w", "q">> => commands = <<"WriteBufferAction", "QuitAction">>
         /\ input = <<"w">> => commands = <<"WriteBufferAction">>
         /\ input = <<"q">> => commands = <<"QuitAction">>
         /\ has_unrecognized(input) => commands = <<>>

\* C18 witness: the command "wq" has been executed as WriteBuffer then Quit.
C18_Witness ==
  /\ executed # NoExecution
  /\ executed[1].input = <<"w", "q">>
  /\ executed[1].commands = <<"WriteBufferAction", "QuitAction">>
  /\ buffer.mode = "Normal"

\* the list p is the first entries of the list v
is_prefix(p, v) == Len(p) <= Len(v) /\ \A i \in 1..Len(p) : p[i] = v[i]

\* the commands of the command line
Recognized == { <<"w">>, <<"q">>, <<"w", "q">> }

\* the actions a command of the command line stands for, in their order
actions_of(input) ==
  IF input \in Recognized
    THEN [i \in 1..Len(input) |->
            IF input[i] = "w" THEN "WriteBufferAction" ELSE "QuitAction"]
    ELSE <<>>

\* C35: executing the command line runs the actions of the command in their
\* order, each to its end before the next: the actions that have run are the
\* first actions of the command, all of them when none fails; for "wq" the
\* file is written before the editor stops running; after the last action
\* the buffer is in Normal mode; an unrecognized command runs no action and
\* returns the buffer to Normal mode with the editor running.
C35_ExecuteInOrder ==
  [][ExecuteCommand
     => LET input == get_command(buffer)
            ran == executed'[1].ran
            r == executed'[1].r
        IN  /\ is_prefix(ran, actions_of(input))
            /\ r = "Ok" => /\ ran = actions_of(input)
                           /\ buffer'.mode = "Normal"
            /\ is_running' = (\A i \in 1..Len(ran) : ran[i] # "QuitAction")
            /\ (input = <<"w", "q">> /\ r = "Ok")
               => /\ ran = <<"WriteBufferAction", "QuitAction">>
                  /\ ~is_running'
                  /\ source = "File" => disk' # None
            /\ input \notin Recognized
               => /\ ran = <<>>
                  /\ r = "Ok"
                  /\ buffer'.mode = "Normal"
                  /\ is_running'
                  /\ disk' = disk]_vars

\* C35 witness: "wq" has written the buffer to its file and then stopped the
\* editor, and the buffer is in Normal mode.
C35_Witness ==
  /\ executed # NoExecution
  /\ executed[1].input = <<"w", "q">>
  /\ executed[1].ran = <<"WriteBufferAction", "QuitAction">>
  /\ source = "File"
  /\ disk = Some(buffer.content)
  /\ ~is_running
  /\ buffer.mode = "Normal"

\* the step has not put the buffer's content in the buffer's file
write_failed == source = "File" /\ buffer.mutable /\ disk' # Some(buffer.content)

\* C36: when the write of the buffer fails while "wq" is executed, the
\* failure is returned, Quit is not executed (the editor keeps running) and
\* the buffer's content, cursor and mode are what they were before.
C36_WriteFailureStopsCommand ==
  [][(ExecuteCommand /\ get_command(buffer) = <<"w", "q">> /\ write_failed)
     => /\ executed'[1].r # "Ok"
        /\ executed'[1].ran = <<>>
        /\ is_running'
        /\ buffer'.content = buffer.content
        /\ buffer'.cursor = buffer.cursor
        /\ buffer'.mode = buffer.mode]_vars

(***************************************************************************)
(* Properties of the minibuffer                                            *)
(***************************************************************************)
\* how many entries of the list v are the string t
occurrences(v, t) == Cardinality({ i \in 1..Len(v) : v[i] = t })

\* the strings of the list v
entries(v) == { v[i] : i \in 1..Len(v) }

\* C20: in Minibuffer mode with the Buffer kind, after every completed
\* minibuffer action the candidate list is sorted and holds exactly the
\* titles of the open buffers that contain the current input.
C20_CandidatesCurrent ==
  (~panicked /\ buffer.mode = "Minibuffer" /\ minibuffer.kind.tag = "Buffer")
  => /\ \A i, j \in 1..Len(minibuffer.content) :
          i < j => ~str_lt(minibuffer.content[j], minibuffer.content[i])
     /\ \A t \in entries(titles) \cup entries(minibuffer.content) :
          occurrences(minibuffer.content, t)
            = IF contains(t, minibuffer.input) THEN occurrences(titles, t) ELSE 0

\* C20 witness: a typed input has narrowed the candidates to several titles,
\* listed in another order than the buffers were opened in.
C20_Witness ==
  /\ ~panicked
  /\ buffer.mode = "Minibuffer"
  /\ minibuffer.kind.tag = "Buffer"
  /\ minibuffer.input # <<>>
  /\ Len(minibuffer.content) >= 2
  /\ Len(minibuffer.content) < Len(titles)
  /\ minibuffer.content # matching(titles, minibuffer.input)

\* C23: no Minibuffer operation aborts: in Minibuffer mode the insert index
\* cursor.x - len(matched_input) lies in 0..len(input), the remove index
\* cursor.x - len(matched_input) - 1 lies inside a non-empty input, and
\* move_cursor returns when the candidate list is empty.
C23_NoMinibufferAbort ==
  /\ ~panicked
  /\ (buffer.mode = "Minibuffer")
       => LET at == minibuffer.cursor.x - Len(minibuffer.matched_input) IN
          /\ at \in 0..Len(minibuffer.input)
          /\ (minibuffer.input # <<>>) => (at - 1 \in 0..(Len(minibuffer.input) - 1))
          /\ (minibuffer.content = <<>>)
               => \A m \in Moves : mb_move_cursor(minibuffer, m[1], m[2]).r = "Ok"

\* the text execute() is to look for: the highlighted candidate, or the
\* typed input when no candidate is highlighted
wanted_text ==
  IF minibuffer.cursor.y < Len(minibuffer.content)
    THEN minibuffer.content[minibuffer.cursor.y + 1]
    ELSE minibuffer.input

\* the open buffers whose title contains the wanted text
wanted_buffers == { num \in 0..(Len(titles) - 1) : contains(titles[num + 1], wanted_text) }

\* C24: when some open buffer's title contains the highlighted candidate (or
\* the typed input when no candidate is highlighted), Enter in a Buffer-kind
\* minibuffer makes the lowest such buffer the active one.
C24_ExecuteOpensLowest ==
  [][(ExecuteMbCommand /\ minibuffer.kind.tag = "Buffer" /\ wanted_buffers # {})
       => /\ active_buffer' \in wanted_buffers
          /\ \A other \in wanted_buffers : active_buffer' <= other]_vars

\* C25: when no open buffer's title contains the text, Enter in a
\* Buffer-kind minibuffer returns NoMatchError and the minibuffer (input,
\* matched_input, candidates), the active buffer index and the buffer, still
\* in Minibuffer mode, are what they were.
C25_NoMatchChangesNothing ==
  /\ []((~panicked /\ buffer.mode = "Minibuffer" /\ minibuffer.kind.tag = "Buffer"
           /\ wanted_buffers = {})
          => execute(minibuffer) = None)
  /\ [][(ExecuteMbCommand /\ minibuffer.kind.tag = "Buffer" /\ wanted_buffers = {})
          => UNCHANGED <<minibuffer, active_buffer, buffer>>]_vars

\* C25 witness: a typed input that no title contains, ready for Enter
C25_Witness ==
  /\ ~panicked
  /\ buffer.mode = "Minibuffer"
  /\ minibuffer.kind.tag = "Buffer"
  /\ minibuffer.input = <<"a", "a">>
  /\ minibuffer.content = <<>>
  /\ wanted_buffers = {}
  /\ ENABLED ExecuteMbCommand

\* the indices OpenBufferAction is tried with
BufferIndices == 0..(MaxBuffers + 1)

\* C37: the active buffer is always one of the open buffers; OpenBuffer with
\* an index outside the open buffers returns IndexError and leaves the active
\* buffer as it is, and with an index inside makes that buffer the active
\* one; opening a file adds its buffer at the end and makes it the active one.
C37_ActiveBufferValid ==
  /\ [](/\ active_buffer \in 0..(Len(titles) - 1)
        /\ Len(modes) = Len(titles)
        /\ \A index \in BufferIndices :
             LET opened == open_buffer(index, titles, active_buffer) IN
             IF index >= Len(titles)
               THEN opened.r = "IndexError" /\ opened.active = active_buffer
               ELSE opened.r = "Ok" /\ opened.active = index)
  /\ [][titles' # titles
        => /\ Len(titles') = Len(titles) + 1
           /\ SubSeq(titles', 1, Len(titles)) = titles
           /\ active_buffer' = Len(titles)]_vars

\* C37 witness: a file has been opened from the minibuffer while the first
\* buffer was the active one, and its buffer, the last one, is the active one.
C37_Witness ==
  /\ Len(titles) = MaxBuffers
  /\ titles[MaxBuffers] \in FileTitles
  /\ active_buffer = MaxBuffers - 1
  /\ minibuffer = fill(MinibufferDefault)
  /\ open_buffer(MaxBuffers, titles, active_buffer).r = "IndexError"

\* the minibuffer is open: it has a kind
minibuffer_open == minibuffer.kind.tag # "Nop"

\* C38: a buffer in Minibuffer mode is the active buffer, and the minibuffer
\* is open: once the minibuffer has opened a file or another buffer, the
\* buffer it was opened from is not left in Minibuffer mode.
C38_MinibufferModeOnlyActive ==
  \A i \in 1..Len(modes) :
    modes[i] = "Minibuffer" => (i = active_buffer + 1 /\ minibuffer_open)

\* C39: after every minibuffer action the highlighted row cursor.y is below
\* the number of candidates when there are candidates and 0 when there are
\* none: a list that shrinks never leaves cursor.y past its end.
C39_HighlightedRowShown ==
  IF minibuffer.content # <<>>
    THEN minibuffer.cursor.y < Len(minibuffer.content)
    ELSE minibuffer.cursor.y = 0

\* C40: after an append with a highlighted candidate the input is that
\* candidate, the highlighted row is 0 and the cursor is at the end of the
\* text, cursor.x = len(matched_input) + len(input), wherever it stood
\* before; with no highlighted candidate the append changes nothing.
C40_AppendCandidate ==
  [][(AppendMb /\ ~panicked')
     => IF minibuffer.cursor.y < Len(minibuffer.content)
          THEN /\ minibuffer'.input = minibuffer.content[minibuffer.cursor.y + 1]
               /\ minibuffer'.cursor.y = 0
               /\ minibuffer'.cursor.x
                    = Len(minibuffer'.matched_input) + Len(minibuffer'.input)
          ELSE minibuffer' = minibuffer]_vars

(***************************************************************************)
(* Properties of the keybinding manager                                    *)
(***************************************************************************)
\* a call of handle_input has been observed
Called == last # NoCall

LastCall == last[1]

\* the sequence the call looked up: the pending sequence with the key appended
typed == Append(LastCall.before, LastCall.key)

\* a sequence begins with the keys of another
prefix_of(seq, prefix) ==
  /\ Len(prefix) <= Len(seq)
  /\ \A i \in 1..Len(prefix) : seq[i] = prefix[i]

\* the entries of mode_bindings registered for a mode under some kinds
registered(km, mode, kinds) ==
  { e \in mode_bindings(km) : e.mode = mode /\ e.kind \in kinds }

\* the entries the call could see: wildcard and current buffer kind
visible ==
  registered(keybinding_manager, LastCall.mode, {None, Some(LastCall.kind)})

\* the keys the handler of a mode resolves to a built-in action before it
\* consults the bindings
literal_key(mode, key_binding) ==
  CASE mode = "Insert" ->
         \/ is_char(key_binding) /\ key_binding.modifiers \in {"NONE", "SHIFT"}
         \/ key_binding.key = <<"Tab">> /\ key_binding.modifiers \in {"NONE", "SHIFT"}
         \/ key_binding.key \in {<<"Backspace">>, <<"Enter">>}
    [] mode = "Command" ->
         \/ is_char(key_binding) /\ key_binding.modifiers \in {"NONE", "SHIFT"}
         \/ key_binding.key = <<"Backspace">>
    [] mode = "Minibuffer" ->
         \/ is_char(key_binding) /\ key_binding.modifiers \in {"NONE", "SHIFT"}
         \/ key_binding.key \in {<<"Backspace">>, <<"Esc">>}
    [] OTHER -> FALSE

\* C6: in Insert and Command mode a character key with no modifier or only
\* Shift resolves to the literal AddChar action of that character and leaves
\* the pending sequence empty, whatever is registered or pending.
C6_LiteralCharacter ==
  (/\ Called
   /\ LastCall.mode \in {"Insert", "Command"}
   /\ is_char(LastCall.key)
   /\ LastCall.key.modifiers \in {"NONE", "SHIFT"})
  => /\ LastCall.action = Some(Act("AddChar", <<LastCall.key.key[2]>>))
     /\ keybinding_manager.current_sequence = <<>>

\* C6 witness: in Insert mode the character g was typed while a chord was
\* pending.
C6_Witness ==
  /\ Called
  /\ LastCall.mode = "Insert"
  /\ LastCall.key = Char("g")
  /\ LastCall.before = <<Ctrl("j")>>

\* C7 as stated: every proper prefix of a registered sequence returns no
\* action and is retained, and the key completing a registered sequence
\* returns its action and clears the pending sequence.
C7_ChordAsStated ==
  Called =>
    /\ (\E e \in visible : Len(typed) < Len(e.seq) /\ prefix_of(e.seq, typed))
         => /\ LastCall.action = None
            /\ keybinding_manager.current_sequence = typed
    /\ (\E e \in visible : e.seq = typed)
         => /\ \E e \in visible : e.seq = typed /\ LastCall.action = Some(e.action)
            /\ keybinding_manager.current_sequence = <<>>

\* C7 amended: for a key the mode's handler does not resolve as a literal, a
\* proper prefix of a registered sequence that is not itself registered
\* returns no action and is retained, and the key completing a registered
\* sequence returns its action and clears the pending sequence.
C7_Chord ==
  (Called /\ ~literal_key(LastCall.mode, LastCall.key)) =>
    /\ (/\ \E e \in visible : Len(typed) < Len(e.seq) /\ prefix_of(e.seq, typed)
        /\ \A e \in visible : e.seq # typed)
         => /\ LastCall.action = None
            /\ keybinding_manager.current_sequence = typed
    /\ (\E e \in visible : e.seq = typed)
         => /\ \E e \in visible : e.seq = typed /\ LastCall.action = Some(e.action)
            /\ keybinding_manager.current_sequence = <<>>

\* C7 witness: the second g of [g, g] in Normal mode returned TopOfBuffer.
C7_Witness ==
  /\ Called
  /\ LastCall.mode = "Normal"
  /\ LastCall.before = <<Char("g")>>
  /\ LastCall.key = Char("g")
  /\ LastCall.action = Some(Act("TopOfBuffer", <<>>))
  /\ keybinding_manager.current_sequence = <<>>

\* C8 as stated: a key that makes the pending sequence neither a registered
\* sequence nor a prefix of one returns no action and leaves the pending
\* sequence empty.
C8_AbandonAsStated ==
  (/\ Called
   /\ \A e \in visible : ~prefix_of(e.seq, typed))
  => /\ LastCall.action = None
     /\ keybinding_manager.current_sequence = <<>>

\* C8 amended: a key the mode's handler does not resolve as a literal, that
\* makes the pending sequence neither a registered sequence nor a prefix of
\* one, returns no action and leaves the pending sequence empty.
C8_Abandon ==
  (/\ Called
   /\ ~literal_key(LastCall.mode, LastCall.key)
   /\ \A e \in visible : ~prefix_of(e.seq, typed))
  => /\ LastCall.action = None
     /\ keybinding_manager.current_sequence = <<>>

\* C8 witness: in Normal mode an unrelated key after a pending g abandoned the
\* chord.
C8_Witness ==
  /\ Called
  /\ LastCall.mode = "Normal"
  /\ LastCall.before = <<Char("g")>>
  /\ LastCall.key = Char("d")
  /\ LastCall.action = None
  /\ keybinding_manager.current_sequence = <<>>

\* the entries of the call's mode registered only under another buffer kind
hidden ==
  { e \in registered(keybinding_manager, LastCall.mode,
                     { Some(k) : k \in BufferKinds \ {LastCall.kind} }) :
      \A v \in visible : v.seq # e.seq }

\* a binding registered only under another buffer kind does not fire and does
\* not keep a sequence pending
hidden_is_inert ==
  /\ \A e \in hidden : e.seq = typed => LastCall.action # Some(e.action)
  /\ keybinding_manager.current_sequence # <<>>
       => \E e \in visible : prefix_of(e.seq, keybinding_manager.current_sequence)

\* C9 as stated: a sequence registered under the current buffer kind and as a
\* wildcard returns the kind-specific action, and a binding registered only
\* under another kind never fires and never keeps a sequence pending.
C9_KindAsStated ==
  Called =>
    /\ \A e \in registered(keybinding_manager, LastCall.mode, {Some(LastCall.kind)}),
          w \in registered(keybinding_manager, LastCall.mode, {None}) :
         (e.seq = typed /\ w.seq = typed) => LastCall.action = Some(e.action)
    /\ hidden_is_inert

\* C9 amended: for a key the mode's handler does not resolve as a literal, a
\* sequence registered under the current buffer kind and as a wildcard returns
\* the kind-specific action; a binding registered only under another kind
\* never fires and never keeps a sequence pending.
C9_Kind ==
  Called =>
    /\ ~literal_key(LastCall.mode, LastCall.key) =>
         \A e \in registered(keybinding_manager, LastCall.mode, {Some(LastCall.kind)}),
            w \in registered(keybinding_manager, LastCall.mode, {None}) :
           (e.seq = typed /\ w.seq = typed) => LastCall.action = Some(e.action)
    /\ hidden_is_inert

\* C9 witness: [g, g] is registered for Normal mode under the current buffer
\* kind and as a wildcard, and the kind-specific action was returned.
C9_Witness ==
  /\ Called
  /\ LastCall.mode = "Normal"
  /\ typed = <<Char("g"), Char("g")>>
  /\ \E e \in registered(keybinding_manager, "Normal", {Some(LastCall.kind)}) :
       e.seq = typed /\ LastCall.action = Some(e.action)
  /\ \E w \in registered(keybinding_manager, "Normal", {None}) : w.seq = typed

\* the built-in action of the keys Backspace, Enter and Tab
literal_action(key_binding) ==
  CASE key_binding.key = <<"Backspace">> -> Act("DeleteChar", <<>>)
    [] key_binding.key = <<"Enter">> -> Act("NewLine", <<"Under">>)
    [] key_binding.key = <<"Tab">> -> Act("AddTab", <<>>)

\* the call was for Backspace, Enter or Tab, with no modifier
editing_key == LastCall.key \in { Code("Backspace"), Code("Enter"), Code("Tab") }

\* C27 as stated: in Insert mode and in Command mode, Backspace, Enter and Tab
\* resolve to DeleteChar, NewLine and Tab, whatever is registered.
C27_LiteralKeysAsStated ==
  (Called /\ LastCall.mode \in {"Insert", "Command"} /\ editing_key)
  => LastCall.action = Some(literal_action(LastCall.key))

\* C27 amended: in Insert mode Backspace, Enter and Tab resolve to DeleteChar,
\* NewLine and Tab whatever is registered; in Command mode only Backspace
\* does, and Enter and Tab resolve to the action registered for the typed
\* sequence, or to none when nothing is registered for it.
C27_LiteralKeys ==
  (Called /\ editing_key)
  => /\ (LastCall.mode = "Insert" \/ (LastCall.mode = "Command" /\ LastCall.key = Code("Backspace")))
          => LastCall.action = Some(literal_action(LastCall.key))
     /\ (LastCall.mode = "Command" /\ LastCall.key # Code("Backspace"))
          => IF \E e \in visible : e.seq = typed
               THEN \E e \in visible : e.seq = typed /\ LastCall.action = Some(e.action)
               ELSE LastCall.action = None

\* C27 witness: Enter in Insert mode returned NewLine although a binding added
\* for [Enter] in Insert mode was visible to the call.
C27_Witness ==
  /\ Called
  /\ LastCall.mode = "Insert"
  /\ LastCall.key = Code("Enter")
  /\ LastCall.before = <<>>
  /\ \E e \in keybinding_manager.added \cap visible : e.seq = <<Code("Enter")>>
  /\ LastCall.action = Some(Act("NewLine", <<"Under">>))

\* C34: after every call of handle_input the pending sequence is empty or a
\* proper prefix of a sequence registered for the call's mode as a wildcard
\* or under the current buffer kind, and so shorter than the longest of them.
C34_PendingIsProperPrefix ==
  Called
  => LET pending == keybinding_manager.current_sequence IN
     /\ \/ pending = <<>>
        \/ \E e \in visible :
             /\ Len(pending) < Len(e.seq)
             /\ \A i \in 1..Len(pending) : e.seq[i] = pending[i]
     /\ \E e \in visible : Len(pending) < Len(e.seq)

\* C34 witness: Ctrl-j, the first key of an added chord, is pending after a
\* call that returned no action.
C34_Witness ==
  /\ Called
  /\ LastCall.before = <<>>
  /\ LastCall.key = Ctrl("j")
  /\ LastCall.action = None
  /\ keybinding_manager.current_sequence = <<Ctrl("j")>>
  /\ \E e \in keybinding_manager.added \cap visible : e.seq = <<Ctrl("j"), Char("g")>>

====
